---- MODULE Spec2Model ----
(***************************************************************************)
(* ace-mvp: the authentication contract (credential store, token issuance  *)
(* and verification, identity middleware) and the post endpoints of the    *)
(* two backends of the repository: the standalone Express server           *)
(* (src/backend) and the serverless functions (src/api).                   *)
(*                                                                         *)
(* Requests are handled concurrently: every request occupies a slot of     *)
(* reqs and moves through its handler one store access at a time (each     *)
(* `await` on the document store is a step of its own).                    *)
(***************************************************************************)
EXTENDS Integers, Sequences, FiniteSets, TLC

VARIABLES
    variant,    \* which backend serves the requests: "express" or "sls"
    jwtSecret,  \* process.env.JWT_SECRET: "unset" or the configured secret
    now,        \* the server clock, in days
    users,      \* the users collection
    posts,      \* the posts collection
    nextUid,    \* number of user documents created so far (fresh _id)
    nextPid,    \* number of post documents created so far (fresh _id)
    reqs,       \* slot -> the request being handled in it
    nreq,       \* number of requests received so far
    issued,     \* the tokens the server has signed so far
    postLog,    \* history: the posts removed, each with the request that removed it
    images,     \* the image files held by the image storage (uploads/, Cloudinary)
    isConnected,  \* the module-level flag of connectDB (serverless)
    readyState,   \* mongoose.connections[0].readyState: 0 disconnected, 1 connected,
                  \* 2 connecting
    localStorage, \* the browser's entries ace_auth_token and ace_user
    authUser,     \* AuthProvider: the user state
    isLoading,    \* AuthProvider: "pending" until initializeAuth has run; "done"
                  \* after setIsLoading(false); "threw" if the effect raised
    location,     \* the path the router shows
    feed,         \* Feed: the searchQuery and filterType states
    feedDisplay   \* FeedDisplay: the posts, loading and error states, and the
                  \* queries it has sent

\* the state of the browser
clientVars == <<localStorage, authUser, isLoading, location, feed, feedDisplay>>

vars == <<variant, jwtSecret, now, users, posts, nextUid, nextPid, reqs, nreq,
          issued, postLog, images, isConnected, readyState, clientVars>>

(***************************************************************************)
(* Bounds of the model.                                                    *)
(***************************************************************************)
MaxReqs == 3
MaxClock == 8

Slots == {1, 2}

(***************************************************************************)
(* Strings that the code transforms are sequences of one-character         *)
(* strings; an email is its local part and its domain.                     *)
(***************************************************************************)
LowerChar(c) ==
    CASE c = "A" -> "a"
      [] c = "B" -> "b"
      [] OTHER -> c

ToLowerSeq(s) == [i \in 1..Len(s) |-> LowerChar(s[i])]

LowerDomain(d) ==
    CASE d = "X.com" -> "x.com"
      [] d = "Gmail.com" -> "gmail.com"
      [] OTHER -> d

\* String.prototype.toLowerCase on an email address
toLowerCase_Mut(e) == e

toLowerCase(e) == [local |-> ToLowerSeq(e.local), domain |-> LowerDomain(e.domain)]

RECURSIVE TrimLeft(_)
TrimLeft(s) == IF s # <<>> /\ Head(s) = " " THEN TrimLeft(Tail(s)) ELSE s

RECURSIVE TrimRight(_)
TrimRight(s) ==
    IF s # <<>> /\ s[Len(s)] = " " THEN TrimRight(SubSeq(s, 1, Len(s) - 1)) ELSE s

\* String.prototype.trim
trim(s) == TrimRight(TrimLeft(s))

trimEmail(e) == [local |-> TrimLeft(e.local), domain |-> e.domain]

RemoveDots(s) == SelectSeq(s, LAMBDA c : c # ".")

\* express-validator's isEmail: a non-empty local part and a domain
isEmail(e) == e.local # <<>> /\ \A i \in 1..Len(e.local) : e.local[i] # " "

\* express-validator's normalizeEmail with its default options: the domain
\* is lower-cased, the local part is lower-cased, and a gmail address
\* loses the dots of its local part
normalizeEmail(e) ==
    LET d == LowerDomain(e.domain) IN
    IF d = "gmail.com"
    THEN [local |-> RemoveDots(ToLowerSeq(e.local)), domain |-> d]
    ELSE [local |-> ToLowerSeq(e.local), domain |-> d]

\* two addresses that differ in letter case only
SameIgnoringCase(e1, e2) ==
    /\ ToLowerSeq(e1.local) = ToLowerSeq(e2.local)
    /\ LowerDomain(e1.domain) = LowerDomain(e2.domain)

(***************************************************************************)
(* Password hashing (bcryptjs): the hash records the salt and is matched   *)
(* by exactly the password it was made of.                                 *)
(***************************************************************************)
Salts == {"s1"}

bcryptHash_Mut(password, salt, cost) ==
    [alg |-> "plain", cost |-> cost, salt |-> salt, digest |-> password]

bcryptHash(password, salt, cost) ==
    [alg |-> "bcrypt", cost |-> cost, salt |-> salt, digest |-> password]

comparePassword_Mut(candidatePassword, hash) == TRUE

comparePassword(candidatePassword, hash) ==
    hash.alg = "bcrypt" /\ hash.digest = candidatePassword

(***************************************************************************)
(* Tokens (jsonwebtoken).  A signed token carries its claims, its issue    *)
(* time, its expiry and the secret that signed it.                         *)
(***************************************************************************)
ExpiresIn == 7

ConfiguredSecret == "s3cret"
DefaultSecret == "your-default-secret"

jwtSign(payload, secret, t) ==
    [kind |-> "jwt", claims |-> payload, iat |-> t, exp |-> t + ExpiresIn,
     sig |-> secret]

NoToken == [kind |-> "none"]
MalformedToken == [kind |-> "garbage"]

jwtVerify_Mut(token, secret, t) ==
    IF token.kind # "jwt"
    THEN [ok |-> FALSE, error |-> "JsonWebTokenError"]
    ELSE IF token.sig # secret
    THEN [ok |-> FALSE, error |-> "JsonWebTokenError"]
    ELSE IF t > token.exp
    THEN [ok |-> FALSE, error |-> "TokenExpiredError"]
    ELSE [ok |-> TRUE, claims |-> token.claims]

\* jwt.verify: the decoded claims, or the error it throws.  The structure
\* is checked first, then the signature, then the expiry.
jwtVerify(token, secret, t) ==
    IF token.kind # "jwt"
    THEN [ok |-> FALSE, error |-> "JsonWebTokenError"]
    ELSE IF token.sig # secret
    THEN [ok |-> FALSE, error |-> "JsonWebTokenError"]
    ELSE IF t >= token.exp
    THEN [ok |-> FALSE, error |-> "TokenExpiredError"]
    ELSE [ok |-> TRUE, claims |-> token.claims]

\* `error instanceof cls` for the errors of jsonwebtoken: TokenExpiredError
\* is a subclass of JsonWebTokenError
InstanceOf(error, cls) ==
    \/ error = cls
    \/ error = "TokenExpiredError" /\ cls = "JsonWebTokenError"

(***************************************************************************)
(* Requests and responses.                                                 *)
(***************************************************************************)
Idle == [kind |-> "idle", pc |-> "idle"]
NoResp == [status |-> 0]
NoId == <<"none", 0>>
NoUser == [id |-> NoId]

IsDone(r) == r.pc = "done"

Respond(r, resp) == [r EXCEPT !.pc = "done", !.resp = resp]

\* generateToken of the Express auth routes
generateToken(userId, email) ==
    jwtSign([userId |-> userId, email |-> email], jwtSecret, now)

UserId(n) == <<"u", n>>

(***************************************************************************)
(* The parts of the state the server-side specifications leave alone: a    *)
(* warm function instance whose connection is open, and no browser.        *)
(***************************************************************************)
EmptyStorage == [token |-> NoToken, user |-> NoUser]

\* the browser when the application is loaded with the given entries in
\* local storage at the given path.  In feedDisplay, sent is the sequence of
\* the queries fetchPosts has sent so far and shownFor the query whose
\* response setPosts has put on the screen.
ClientStart(storage, path) ==
    /\ localStorage = storage
    /\ authUser = NoUser
    /\ isLoading = "pending"
    /\ location = path
    /\ feed = [searchQuery |-> <<>>, filterType |-> "ALL"]
    /\ feedDisplay = [posts |-> <<>>, loading |-> TRUE, error |-> "", sent |-> <<>>,
                      shownFor |-> [userId |-> NoId, q |-> <<>>, type |-> "none"]]

NoClient == ClientStart(EmptyStorage, "/login")

(***************************************************************************)
(* Inputs of the model.                                                    *)
(***************************************************************************)
Ann == <<"A", "n", "n">>

EmailInputs ==
    { [local |-> <<"A">>, domain |-> "X.com"],
      [local |-> <<"a">>, domain |-> "x.com"],
      [local |-> <<"a", ".", "b">>, domain |-> "gmail.com"],
      [local |-> <<"a", "b">>, domain |-> "gmail.com"] }

RegisterBodies ==
    { [name |-> Ann, email |-> e, password |-> "secret1"] : e \in EmailInputs }
    \cup { [name |-> Ann, email |-> [local |-> <<"a">>, domain |-> "x.com"],
            password |-> "short"] }

LoginBodies ==
    { [email |-> e, password |-> p] : e \in EmailInputs, p \in {"secret1", "secret2"} }
    \cup { [email |-> [local |-> <<>>, domain |-> "x.com"], password |-> "secret1"] }

(***************************************************************************)
(* POST /api/auth/register, Express.                                       *)
(***************************************************************************)
\* users whose email equals e ignoring letter case
UsersWithEmail(e) == { u \in users : SameIgnoringCase(u.email, e) }

RegisterConflictResp == [status |-> 409, message |-> "User with this email already exists"]

\* the request arrives; validateRegistration checks and sanitizes the body
ExRegisterValidate(s, b) ==
    /\ variant = "express"
    /\ reqs[s] = Idle
    /\ nreq < MaxReqs
    /\ nreq' = nreq + 1
    /\ LET valid == /\ Len(b.name) >= 2 /\ Len(b.name) <= 50
                    /\ isEmail(b.email)
                    /\ Len(b.password) >= 6
           r == [kind |-> "register", pc |-> "findOne",
                 body |-> [b EXCEPT !.email = normalizeEmail(b.email)],
                 given |-> b.email,
                 conflict |-> UsersWithEmail(b.email),
                 inserted |-> FALSE,
                 resp |-> NoResp]
       IN reqs' = [reqs EXCEPT ![s] =
                     IF valid THEN r
                     ELSE Respond(r, [status |-> 400, message |-> "Validation failed"])]
    /\ UNCHANGED <<isConnected, readyState, clientVars, variant, jwtSecret, now, users, posts, nextUid, nextPid, issued, postLog, images>>

\* User.findOne({ email: email.toLowerCase() })
ExRegisterFindOne(s) ==
    /\ variant = "express"
    /\ reqs[s].kind = "register" /\ reqs[s].pc = "findOne"
    /\ LET r == reqs[s]
           existingUser == { u \in users : u.email = toLowerCase(r.body.email) }
       IN reqs' = [reqs EXCEPT ![s] =
                     IF existingUser # {} THEN Respond(r, RegisterConflictResp)
                     ELSE [r EXCEPT !.pc = "save"]]
    /\ UNCHANGED <<isConnected, readyState, clientVars, variant, jwtSecret, now, users, posts, nextUid, nextPid, nreq, issued, postLog, images>>

\* new User({...}).save() with the pre-save hash and the unique email index,
\* then generateToken and the response; the catch block maps the errors
ExRegisterSave(s) ==
    /\ variant = "express"
    /\ reqs[s].kind = "register" /\ reqs[s].pc = "save"
    /\ \E salt \in Salts :
         LET r == reqs[s]
             newUser == [id |-> UserId(nextUid + 1),
                         name |-> trim(r.body.name),
                         email |-> toLowerCase(trimEmail(r.body.email)),
                         password |-> bcryptHash(r.body.password, salt, 12)]
             duplicateKey == \E u \in users : u.email = newUser.email
             token == generateToken(newUser.id, newUser.email)
         IN IF duplicateKey
            THEN /\ reqs' = [reqs EXCEPT ![s] = Respond(r, RegisterConflictResp)]
                 /\ UNCHANGED <<users, nextUid, issued>>
            ELSE IF jwtSecret = "unset"
            THEN /\ users' = users \cup {newUser}
                 /\ nextUid' = nextUid + 1
                 /\ reqs' = [reqs EXCEPT ![s] =
                       Respond([r EXCEPT !.inserted = TRUE],
                               [status |-> 500, message |-> "Registration failed"])]
                 /\ UNCHANGED issued
            ELSE /\ users' = users \cup {newUser}
                 /\ nextUid' = nextUid + 1
                 /\ issued' = issued \cup {token}
                 /\ reqs' = [reqs EXCEPT ![s] =
                       Respond([r EXCEPT !.inserted = TRUE],
                               [status |-> 201, message |-> "User registered successfully",
                                user |-> [id |-> newUser.id, name |-> newUser.name,
                                          email |-> newUser.email],
                                token |-> token])]
    /\ UNCHANGED <<isConnected, readyState, clientVars, variant, jwtSecret, now, posts, nextPid, nreq, postLog, images>>

(***************************************************************************)
(* POST /api/auth/register, serverless.                                    *)
(***************************************************************************)
SlsRegisterValidate(s, b) ==
    /\ variant = "sls"
    /\ reqs[s] = Idle
    /\ nreq < MaxReqs
    /\ nreq' = nreq + 1
    /\ LET r == [kind |-> "register", pc |-> "findOne",
                 body |-> b,
                 given |-> b.email,
                 conflict |-> UsersWithEmail(b.email),
                 inserted |-> FALSE,
                 resp |-> NoResp]
       IN reqs' = [reqs EXCEPT ![s] =
                     IF trim(b.name) = <<>> \/ b.email.local = <<>>
                     THEN Respond(r, [status |-> 400,
                              message |-> "Username, email, and password are required"])
                     ELSE IF Len(b.password) < 6
                     THEN Respond(r, [status |-> 400,
                              message |-> "Password must be at least 6 characters long"])
                     ELSE r]
    /\ UNCHANGED <<isConnected, readyState, clientVars, variant, jwtSecret, now, users, posts, nextUid, nextPid, issued, postLog, images>>

SlsRegisterFindOne(s) ==
    /\ variant = "sls"
    /\ reqs[s].kind = "register" /\ reqs[s].pc = "findOne"
    /\ LET r == reqs[s]
           existingUser == { u \in users : u.email = toLowerCase(r.body.email) }
       IN reqs' = [reqs EXCEPT ![s] =
                     IF existingUser # {} THEN Respond(r, RegisterConflictResp)
                     ELSE [r EXCEPT !.pc = "save"]]
    /\ UNCHANGED <<isConnected, readyState, clientVars, variant, jwtSecret, now, users, posts, nextUid, nextPid, nreq, issued, postLog, images>>

\* bcrypt.hash, newUser.save() under the unique indexes of the schema, and
\* jwt.sign; every error ends in the catch block's 500
SlsRegisterSave(s) ==
    /\ variant = "sls"
    /\ reqs[s].kind = "register" /\ reqs[s].pc = "save"
    /\ \E salt \in Salts :
         LET r == reqs[s]
             newUser == [id |-> UserId(nextUid + 1),
                         username |-> trim(r.body.name),
                         email |-> toLowerCase(trimEmail(r.body.email)),
                         password |-> bcryptHash(r.body.password, salt, 10)]
             duplicateKey == \E u \in users :
                                 u.email = newUser.email \/ u.username = newUser.username
             secret == IF jwtSecret = "unset" THEN DefaultSecret ELSE jwtSecret
             token == jwtSign([userId |-> newUser.id, email |-> newUser.email,
                               username |-> newUser.username], secret, now)
         IN IF duplicateKey
            THEN /\ reqs' = [reqs EXCEPT ![s] =
                       Respond(r, [status |-> 500, message |-> "Registration failed"])]
                 /\ UNCHANGED <<users, nextUid, issued>>
            ELSE /\ users' = users \cup {newUser}
                 /\ nextUid' = nextUid + 1
                 /\ issued' = issued \cup {token}
                 /\ reqs' = [reqs EXCEPT ![s] =
                       Respond([r EXCEPT !.inserted = TRUE],
                               [status |-> 201, message |-> "User registered successfully",
                                user |-> [id |-> newUser.id, username |-> newUser.username,
                                          email |-> newUser.email],
                                token |-> token])]
    /\ UNCHANGED <<isConnected, readyState, clientVars, variant, jwtSecret, now, posts, nextPid, nreq, postLog, images>>

(***************************************************************************)
(* POST /api/auth/login, Express.                                          *)
(***************************************************************************)
LoginNoUserResp_Mut == [status |-> 404, message |-> "User not found"]

LoginNoUserResp == [status |-> 401, message |-> "Invalid email or password"]

LoginBadPasswordResp == [status |-> 401, message |-> "Invalid email or password"]

\* User.findOne({ email: email.toLowerCase() }) of the login route
LoginLookup(email) == { u \in users : u.email = toLowerCase(email) }

\* the request arrives; validateLogin checks and sanitizes the body
ExLoginValidate(s, b) ==
    /\ variant = "express"
    /\ reqs[s] = Idle
    /\ nreq < MaxReqs
    /\ nreq' = nreq + 1
    /\ LET valid == isEmail(b.email) /\ b.password # ""
           r == [kind |-> "login", pc |-> "findOne",
                 body |-> [b EXCEPT !.email = normalizeEmail(b.email)],
                 given |-> b.email,
                 found |-> NoUser,
                 seen |-> {},
                 resp |-> NoResp]
       IN reqs' = [reqs EXCEPT ![s] =
                     IF valid THEN r
                     ELSE Respond(r, [status |-> 400, message |-> "Validation failed"])]
    /\ UNCHANGED <<isConnected, readyState, clientVars, variant, jwtSecret, now, users, posts, nextUid, nextPid, issued, postLog, images>>

\* findOne, user.comparePassword on the document found, generateToken and
\* the response (only findOne reads the store)
ExLoginFindOne(s) ==
    /\ variant = "express"
    /\ reqs[s].kind = "login" /\ reqs[s].pc = "findOne"
    /\ LET r == [reqs[s] EXCEPT !.seen = users]
           match == LoginLookup(r.body.email)
           user == CHOOSE u \in match : TRUE
           token == generateToken(user.id, user.email)
       IN IF match = {}
          THEN /\ reqs' = [reqs EXCEPT ![s] = Respond(r, LoginNoUserResp)]
               /\ UNCHANGED issued
          ELSE IF ~comparePassword(r.body.password, user.password)
          THEN /\ reqs' = [reqs EXCEPT ![s] =
                     Respond([r EXCEPT !.found = user], LoginBadPasswordResp)]
               /\ UNCHANGED issued
          ELSE IF jwtSecret = "unset"
          THEN /\ reqs' = [reqs EXCEPT ![s] =
                     Respond([r EXCEPT !.found = user],
                             [status |-> 500, message |-> "Login failed"])]
               /\ UNCHANGED issued
          ELSE /\ issued' = issued \cup {token}
               /\ reqs' = [reqs EXCEPT ![s] =
                     Respond([r EXCEPT !.found = user],
                             [status |-> 200, message |-> "Login successful",
                              user |-> [id |-> user.id, name |-> user.name,
                                        email |-> user.email],
                              token |-> token])]
    /\ UNCHANGED <<isConnected, readyState, clientVars, variant, jwtSecret, now, users, posts, nextUid, nextPid, nreq, postLog, images>>

\* the client has read the response; the slot serves the next request
Recycle(s) ==
    /\ IsDone(reqs[s])
    /\ reqs' = [reqs EXCEPT ![s] = Idle]
    /\ UNCHANGED <<isConnected, readyState, clientVars, variant, jwtSecret, now, users, posts, nextUid, nextPid, nreq, issued, postLog, images>>

InitAuth ==
    /\ isConnected = TRUE /\ readyState = 1
    /\ NoClient
    /\ variant \in {"express", "sls"}
    /\ jwtSecret = ConfiguredSecret
    /\ now = 0
    /\ users = {}
    /\ posts = {}
    /\ nextUid = 0
    /\ nextPid = 0
    /\ reqs = [s \in Slots |-> Idle]
    /\ nreq = 0
    /\ issued = {}
    /\ postLog = {}
    /\ images = {}

NextAuth ==
    \/ \E s \in Slots, b \in RegisterBodies : ExRegisterValidate(s, b)
    \/ \E s \in Slots : ExRegisterFindOne(s)
    \/ \E s \in Slots : ExRegisterSave(s)
    \/ \E s \in Slots, b \in RegisterBodies : SlsRegisterValidate(s, b)
    \/ \E s \in Slots : SlsRegisterFindOne(s)
    \/ \E s \in Slots : SlsRegisterSave(s)
    \/ \E s \in Slots, b \in LoginBodies : ExLoginValidate(s, b)
    \/ \E s \in Slots : ExLoginFindOne(s)
    \/ \E s \in Slots : Recycle(s)

SpecAuth == InitAuth /\ [][NextAuth]_vars

(***************************************************************************)
(* Identity middleware of the Express backend (authenticateToken).         *)
(***************************************************************************)
NoHeader == [present |-> FALSE, scheme |-> "", token |-> NoToken]

\* the header "<scheme> <token>"; a header of one word carries no token
Header(scheme, token) == [present |-> TRUE, scheme |-> scheme, token |-> token]

\* authHeader && authHeader.split(' ')[1]
SecondWord(h) == IF h.present THEN h.token ELSE NoToken

\* authHeader?.startsWith('Bearer ')
StartsWithBearer(h) == h.present /\ h.scheme = "Bearer"

NoClaims == [userId |-> NoId]
BadId == <<"bad", 0>>
PostId(n) == <<"p", n>>

\* /^[0-9a-fA-F]{24}$/ : the identifiers the store generates
IsObjectId(id) == id[1] \in {"u", "p"}

\* the catch block of authenticateToken: the first matching instanceof wins
AuthErrorResp(error) ==
    IF InstanceOf(error, "JsonWebTokenError")
    THEN [status |-> 401, message |-> "Invalid token"]
    ELSE IF InstanceOf(error, "TokenExpiredError")
    THEN [status |-> 401, message |-> "Token expired"]
    ELSE [status |-> 500, message |-> "Authentication failed"]

\* authenticateToken up to its first await: the token is taken from the
\* header and verified.  The result is the decoded claims, or the response.
AuthVerify(h) ==
    LET token == SecondWord(h)
        v == jwtVerify(token, jwtSecret, now)
    IN IF token = NoToken
       THEN [ok |-> FALSE, resp |-> [status |-> 401, message |-> "Access token required"]]
       ELSE IF jwtSecret = "unset"
       THEN [ok |-> FALSE, resp |-> [status |-> 500, message |-> "Server configuration error"]]
       ELSE IF ~v.ok
       THEN [ok |-> FALSE, resp |-> AuthErrorResp(v.error)]
       ELSE [ok |-> TRUE, claims |-> v.claims]

\* history: the token is correctly signed and unexpired as the request
\* arrives, and its subject is the id of no user in the store
IsOrphan(token, secret) ==
    /\ token.kind = "jwt"
    /\ token.sig = secret
    /\ now < token.exp
    /\ ~\E u \in users : u.id = token.claims.userId

\* a request to a protected Express route, as authenticateToken leaves it
\* at its first await
Protected(kind, h, fields) ==
    LET a == AuthVerify(h)
        r == [kind |-> kind, pc |-> "authFindUser", header |-> h, at |-> now,
              decoded |-> IF a.ok THEN a.claims ELSE NoClaims,
              orphan |-> IsOrphan(SecondWord(h), jwtSecret),
              user |-> NoUser, resp |-> NoResp] @@ fields
    IN IF a.ok THEN r ELSE Respond(r, a.resp)

\* User.findById(decoded.userId); req.user = {id, email}; next()
ExAuthFindUser(s) ==
    /\ variant = "express"
    /\ reqs[s].pc = "authFindUser"
    /\ LET r == reqs[s]
           found == { u \in users : u.id = r.decoded.userId }
           user == CHOOSE u \in found : TRUE
       IN reqs' = [reqs EXCEPT ![s] =
                     IF found = {}
                     THEN Respond(r, [status |-> 401, message |-> "User not found"])
                     ELSE [r EXCEPT !.user = [id |-> user.id, email |-> user.email],
                                    !.pc = IF r.kind = "createPost" THEN "upload"
                                           ELSE "findPost"]]
    /\ UNCHANGED <<isConnected, readyState, clientVars, variant, jwtSecret, now, users, posts, nextUid, nextPid, nreq, issued, postLog, images>>

(***************************************************************************)
(* DELETE /api/posts/:id, Express.                                         *)
(***************************************************************************)
NoPost == [id |-> NoId]

\* post.userId !== userId
IsOwner_Mut(post, userId) == TRUE

IsOwner(post, userId) == post.userId = userId

\* Post.findByIdAndDelete(id)
WithoutPost_Mut(id) == posts

WithoutPost(id) == { p \in posts : p.id # id }

ExDeleteArrive(s, h, id) ==
    /\ variant = "express"
    /\ reqs[s] = Idle
    /\ nreq < MaxReqs
    /\ nreq' = nreq + 1
    /\ reqs' = [reqs EXCEPT ![s] =
                  Protected("deletePost", h, [id |-> id, post |-> NoPost])]
    /\ UNCHANGED <<isConnected, readyState, clientVars, variant, jwtSecret, now, users, posts, nextUid, nextPid, issued, postLog, images>>

\* Post.findById(id), then the ownership check
ExDeleteFindPost(s) ==
    /\ variant = "express"
    /\ reqs[s].kind = "deletePost" /\ reqs[s].pc = "findPost"
    /\ LET r == reqs[s]
           found == { p \in posts : p.id = r.id }
           post == CHOOSE p \in found : TRUE
       IN reqs' = [reqs EXCEPT ![s] =
                     IF ~IsObjectId(r.id)
                     THEN Respond(r, [status |-> 500, message |-> "Internal server error"])
                     ELSE IF found = {}
                     THEN Respond(r, [status |-> 404, message |-> "Post not found"])
                     ELSE IF ~IsOwner(post, r.user.id)
                     THEN Respond([r EXCEPT !.post = post],
                              [status |-> 403, message |-> "You can only delete your own posts"])
                     ELSE [r EXCEPT !.post = post, !.pc = "delete"]]
    /\ UNCHANGED <<isConnected, readyState, clientVars, variant, jwtSecret, now, users, posts, nextUid, nextPid, nreq, issued, postLog, images>>

\* Post.findByIdAndDelete(id) and the 200 response
ExDeleteDelete(s) ==
    /\ variant = "express"
    /\ reqs[s].kind = "deletePost" /\ reqs[s].pc = "delete"
    /\ LET r == reqs[s] IN
         /\ posts' = WithoutPost(r.id)
         /\ postLog' = postLog \cup
               {[post |-> r.post, by |-> r.user.id, header |-> r.header, at |-> r.at]}
         /\ reqs' = [reqs EXCEPT ![s] =
                       Respond(r, [status |-> 200, message |-> "Post deleted successfully"])]
    /\ UNCHANGED <<isConnected, readyState, clientVars, variant, jwtSecret, now, users, nextUid, nextPid, nreq, issued, images>>

(***************************************************************************)
(* POST /api/posts, Express.                                               *)
(***************************************************************************)
ExPostArrive(s, h, b) ==
    /\ variant = "express"
    /\ reqs[s] = Idle
    /\ nreq < MaxReqs
    /\ nreq' = nreq + 1
    /\ reqs' = [reqs EXCEPT ![s] = Protected("createPost", h, [body |-> b, file |-> ""])]
    /\ UNCHANGED <<isConnected, readyState, clientVars, variant, jwtSecret, now, users, posts, nextUid, nextPid, issued, postLog, images>>

\* the name the storage gives to the next file it stores
FreshImage == "file" \o ToString(Cardinality(images) + 1)

\* upload.single('image') and validatePostData.  multer writes an accepted
\* file to uploads/ before the handler runs; an error of the upload is
\* passed to next(err), that is to the error middleware of index.ts.
ExPostUpload(s) ==
    /\ variant = "express"
    /\ reqs[s].kind = "createPost" /\ reqs[s].pc = "upload"
    /\ LET r0 == reqs[s]
           b == r0.body
           r == IF b.file = "image" THEN [r0 EXCEPT !.file = FreshImage] ELSE r0
       IN /\ reqs' = [reqs EXCEPT ![s] =
                     IF b.file \in {"tooLarge", "notImage"}
                     THEN Respond(r, [status |-> 500, message |-> "Something went wrong!"])
                     ELSE IF ~(b.type \in {"NEED", "HAVE"})
                             \/ ~(Len(b.content) >= 1 /\ Len(b.content) <= 1000)
                     THEN Respond(r, [status |-> 400, message |-> "Validation failed"])
                     ELSE [r EXCEPT !.pc = "findUser"]]
          /\ images' = IF b.file = "image" THEN images \cup {"/uploads/" \o FreshImage}
                       ELSE images
    /\ UNCHANGED <<isConnected, readyState, clientVars, variant, jwtSecret, now, users, posts, nextUid, nextPid, nreq, issued, postLog>>

\* User.findById(userId).select('name')
ExPostFindUser(s) ==
    /\ variant = "express"
    /\ reqs[s].kind = "createPost" /\ reqs[s].pc = "findUser"
    /\ LET r == reqs[s]
           found == { u \in users : u.id = r.user.id }
       IN reqs' = [reqs EXCEPT ![s] =
                     IF found = {}
                     THEN Respond(r, [status |-> 404, message |-> "User not found"])
                     ELSE [r EXCEPT !.pc = "save"]]
    /\ UNCHANGED <<isConnected, readyState, clientVars, variant, jwtSecret, now, users, posts, nextUid, nextPid, nreq, issued, postLog, images>>

\* const userId = req.user!.id
PostUserId_Mut(r) == r.body.userId

PostUserId(r) == r.user.id

\* new Post({...}).save() under the schema (content trimmed and required)
ExPostSave(s) ==
    /\ variant = "express"
    /\ reqs[s].kind = "createPost" /\ reqs[s].pc = "save"
    /\ LET r == reqs[s]
           b == r.body
           newPost == [id |-> PostId(nextPid + 1),
                       type |-> b.type,
                       content |-> trim(b.content),
                       userId |-> PostUserId(r),
                       imageUrl |-> IF b.type = "HAVE" /\ r.file # ""
                                    THEN "/uploads/" \o r.file ELSE "",
                       createdAt |-> now]
       IN IF newPost.content = <<>>
          THEN /\ reqs' = [reqs EXCEPT ![s] =
                     Respond(r, [status |-> 400, message |-> "Invalid data provided"])]
               /\ UNCHANGED <<posts, nextPid>>
          ELSE /\ posts' = posts \cup {newPost}
               /\ nextPid' = nextPid + 1
               /\ reqs' = [reqs EXCEPT ![s] =
                     Respond(r, [status |-> 201, message |-> "Post created successfully",
                                 data |-> newPost])]
    /\ UNCHANGED <<isConnected, readyState, clientVars, variant, jwtSecret, now, users, nextUid, nreq, issued, postLog, images>>

(***************************************************************************)
(* GET /api/posts, Express.  Both backends build the same query.           *)
(***************************************************************************)
UnknownUser == <<"U", "n", "k", "n", "o", "w", "n", " ", "U", "s", "e", "r">>

RegexSpecial == {".", "*", "+", "?", "^", "$", "{", "}", "(", ")", "|", "[", "]", "\\"}

\* q.replace(/[.*+?^${}()|[\]\\]/g, '\\$&')
EscapeRegex_Mut(q) == q

RECURSIVE EscapeRegex(_)
EscapeRegex(q) ==
    IF q = <<>> THEN <<>>
    ELSE IF Head(q) \in RegexSpecial
    THEN <<"\\", Head(q)>> \o EscapeRegex(Tail(q))
    ELSE <<Head(q)>> \o EscapeRegex(Tail(q))

\* the pattern matches the text from position i on: an escaped character
\* stands for itself, a bare dot for any character; letter case is ignored
RECURSIVE MatchesAt(_, _, _)
MatchesAt(pattern, text, i) ==
    IF pattern = <<>> THEN TRUE
    ELSE IF Head(pattern) = "\\" /\ Len(pattern) >= 2
    THEN /\ i <= Len(text)
         /\ LowerChar(text[i]) = LowerChar(pattern[2])
         /\ MatchesAt(SubSeq(pattern, 3, Len(pattern)), text, i + 1)
    ELSE /\ i <= Len(text)
         /\ (Head(pattern) = "." \/ LowerChar(text[i]) = LowerChar(Head(pattern)))
         /\ MatchesAt(Tail(pattern), text, i + 1)

\* { $regex: pattern, $options: 'i' }
RegexTest(pattern, text) == \E i \in 1..(Len(text) + 1) : MatchesAt(pattern, text, i)

\* type.toUpperCase()
TypeUpper(t) ==
    CASE t = "need" -> "NEED"
      [] t = "have" -> "HAVE"
      [] t = "all" -> "ALL"
      [] OTHER -> t

\* the posts that Post.find(query) selects for the parameters of the request
Find_Mut(q) ==
    { p \in posts :
        /\ q.userId # NoId => p.userId = q.userId
        /\ trim(q.q) # <<>> => RegexTest(EscapeRegex(trim(q.q)), p.content) }

Find(q) ==
    { p \in posts :
        /\ q.userId # NoId => p.userId = q.userId
        /\ TypeUpper(q.type) \in {"NEED", "HAVE"} => p.type = TypeUpper(q.type)
        /\ trim(q.q) # <<>> => RegexTest(EscapeRegex(trim(q.q)), p.content) }

\* the pattern is a well-formed regular expression: every escape is
\* complete, every group is closed and every character class is terminated
RECURSIVE RegexCompiles(_, _)
RegexCompiles(pattern, open) ==
    IF pattern = <<>> THEN open = 0
    ELSE IF Head(pattern) = "\\"
    THEN Len(pattern) >= 2 /\ RegexCompiles(SubSeq(pattern, 3, Len(pattern)), open)
    ELSE IF Head(pattern) = "("
    THEN RegexCompiles(Tail(pattern), open + 1)
    ELSE IF Head(pattern) = ")"
    THEN open > 0 /\ RegexCompiles(Tail(pattern), open - 1)
    ELSE IF Head(pattern) = "["
    THEN /\ \E i \in 2..Len(pattern) : pattern[i] = "]"
         /\ RegexCompiles(Tail(pattern), open)
    ELSE RegexCompiles(Tail(pattern), open)

\* the store rejects the query when its $regex does not compile
QueryFails(q) == trim(q.q) # <<>> /\ ~RegexCompiles(EscapeRegex(trim(q.q)), 0)

\* .sort({ createdAt: -1 }): the orderings of S, newest first
SortedNewestFirst_Mut(S) ==
    { f \in [1..Cardinality(S) -> S] :
        \A i, j \in 1..Cardinality(S) : i # j => f[i] # f[j] }

SortedNewestFirst(S) ==
    { f \in [1..Cardinality(S) -> S] :
        /\ \A i, j \in 1..Cardinality(S) : i # j => f[i] # f[j]
        /\ \A i \in 1..(Cardinality(S) - 1) : f[i].createdAt >= f[i + 1].createdAt }

\* a GET /api/posts request after Post.find(query).sort(...) has answered
\* with the list found; scanned, removedBefore, lookup and usersAt are
\* history (the collection read, the posts removed before, the outcome of
\* the user lookup and the users collection it read)
GetRequest(q, found) ==
    [kind |-> "getPosts", pc |-> "hydrate", query |-> q, found |-> found,
     scanned |-> posts, removedBefore |-> { e.post.id : e \in postLog },
     lookup |-> "none", usersAt |-> {}, resp |-> NoResp]

\* the request arrives and Post.find(query).sort(...) is read from the store
ExGetFind(s, q) ==
    /\ variant = "express"
    /\ reqs[s] = Idle
    /\ nreq < MaxReqs
    /\ nreq' = nreq + 1
    /\ IF QueryFails(q)
       THEN reqs' = [reqs EXCEPT ![s] =
                Respond(GetRequest(q, <<>>),
                        [status |-> 500, message |-> "Internal server error"])]
       ELSE \E found \in SortedNewestFirst(Find(q)) :
                reqs' = [reqs EXCEPT ![s] = GetRequest(q, found)]
    /\ UNCHANGED <<isConnected, readyState, clientVars, variant, jwtSecret, now, users, posts, nextUid, nextPid, issued, postLog, images>>

\* the outcomes of a read of the users collection
LookupOutcomes == {"ok", "error"}

\* the object the handlers send for a post
FormatPost(post, userName) ==
    [id |-> post.id, type |-> post.type, content |-> post.content,
     userId |-> post.userId, userName |-> userName,
     createdAt |-> post.createdAt, imageUrl |-> post.imageUrl]

\* validUserIds / uniqueUserIds: the well-formed author ids of the list
UniqueUserIds_Mut(found) == {}

UniqueUserIds(found) ==
    { found[i].userId : i \in { j \in 1..Len(found) : IsObjectId(found[j].userId) } }

\* the author names are looked up and the list is sent.  A failure of
\* User.find is caught and leaves the name map empty; a failure of
\* User.findById (the store, or an id that cannot be cast) reaches the catch
\* block of the handler.
ExGetHydrate(s) ==
    /\ variant = "express"
    /\ reqs[s].kind = "getPosts" /\ reqs[s].pc = "hydrate"
    /\ \E lookup \in LookupOutcomes :
         LET r == [reqs[s] EXCEPT !.lookup = lookup, !.usersAt = users]
             found == r.found
             fetched == IF lookup = "ok"
                        THEN { u \in users : u.id \in UniqueUserIds(found) }
                        ELSE {}
             userMapGet(id) == IF \E u \in fetched : u.id = id
                               THEN (CHOOSE u \in fetched : u.id = id).name
                               ELSE UnknownUser
             user == { u \in users : u.id = r.query.userId }
             userName == IF user # {} THEN (CHOOSE u \in user : TRUE).name
                         ELSE UnknownUser
         IN reqs' = [reqs EXCEPT ![s] =
              IF r.query.userId = NoId
              THEN Respond(r, [status |-> 200,
                      list |-> [i \in 1..Len(found) |->
                                  FormatPost(found[i], userMapGet(found[i].userId))]])
              ELSE IF lookup = "error" \/ ~IsObjectId(r.query.userId)
              THEN Respond(r, [status |-> 500, message |-> "Internal server error"])
              ELSE Respond(r, [status |-> 200,
                      list |-> [i \in 1..Len(found) |-> FormatPost(found[i], userName)]])]
    /\ UNCHANGED <<isConnected, readyState, clientVars, variant, jwtSecret, now, users, posts, nextUid, nextPid, nreq, issued, postLog, images>>

(***************************************************************************)
(* GET /api/posts, serverless (handleGet).  The handler has no catch block *)
(* of its own: what it throws is caught by the function's handler.         *)
(***************************************************************************)
SlsGetFind(s, q) ==
    /\ variant = "sls"
    /\ reqs[s] = Idle
    /\ nreq < MaxReqs
    /\ nreq' = nreq + 1
    /\ IF QueryFails(q)
       THEN reqs' = [reqs EXCEPT ![s] =
                Respond(GetRequest(q, <<>>),
                        [status |-> 500, message |-> "Internal server error"])]
       ELSE \E found \in SortedNewestFirst(Find(q)) :
                reqs' = [reqs EXCEPT ![s] = GetRequest(q, found)]
    /\ UNCHANGED <<isConnected, readyState, clientVars, variant, jwtSecret, now, users, posts, nextUid, nextPid, issued, postLog, images>>

SlsGetHydrate(s) ==
    /\ variant = "sls"
    /\ reqs[s].kind = "getPosts" /\ reqs[s].pc = "hydrate"
    /\ \E lookup \in LookupOutcomes :
         LET r == [reqs[s] EXCEPT !.lookup = lookup, !.usersAt = users]
             found == r.found
             fetched == { u \in users : u.id \in UniqueUserIds(found) }
             userMapGet(id) == IF \E u \in fetched : u.id = id
                               THEN (CHOOSE u \in fetched : u.id = id).username
                               ELSE UnknownUser
             user == { u \in users : u.id = r.query.userId }
             userName == IF user # {} THEN (CHOOSE u \in user : TRUE).username
                         ELSE UnknownUser
         IN reqs' = [reqs EXCEPT ![s] =
              IF lookup = "error" \/ (r.query.userId # NoId /\ ~IsObjectId(r.query.userId))
              THEN Respond(r, [status |-> 500, message |-> "Internal server error"])
              ELSE IF r.query.userId = NoId
              THEN Respond(r, [status |-> 200,
                      list |-> [i \in 1..Len(found) |->
                                  FormatPost(found[i], userMapGet(found[i].userId))]])
              ELSE Respond(r, [status |-> 200,
                      list |-> [i \in 1..Len(found) |-> FormatPost(found[i], userName)]])]
    /\ UNCHANGED <<isConnected, readyState, clientVars, variant, jwtSecret, now, users, posts, nextUid, nextPid, nreq, issued, postLog, images>>

(***************************************************************************)
(* The Express post routes, served to two registered users: the store     *)
(* holds Ann and Bob, and each holds the token the registration returned.  *)
(***************************************************************************)
Bob == <<"B", "o", "b">>

SeedUsers ==
    { [id |-> UserId(1), name |-> Ann, email |-> [local |-> <<"a">>, domain |-> "x.com"],
       password |-> bcryptHash("secret1", "s1", 12)],
      [id |-> UserId(2), name |-> Bob, email |-> [local |-> <<"b">>, domain |-> "x.com"],
       password |-> bcryptHash("secret2", "s1", 12)] }

\* the token each registration returned, at time 0
SeedTokens ==
    { jwtSign([userId |-> u.id, email |-> u.email], ConfiguredSecret, 0) : u \in SeedUsers }

PostHeaders == { Header("Bearer", t) : t \in SeedTokens } \cup {NoHeader}

PostBodies ==
    { [type |-> "NEED", content |-> <<"a", ".", "b">>, file |-> "none"],
      [type |-> "HAVE", content |-> <<" ", "A", "x", "b">>, file |-> "image"],
      [type |-> "WANT", content |-> <<"a">>, file |-> "none"],
      [type |-> "NEED", content |-> <<" ">>, file |-> "none"],
      [type |-> "HAVE", content |-> <<"a">>, file |-> "tooLarge"],
      [type |-> "NEED", content |-> [i \in 1..1001 |-> "a"], file |-> "none"] }

DeleteIds == {PostId(1), PostId(2), BadId}

Queries ==
    { [userId |-> u, q |-> q, type |-> t] :
        u \in {NoId, UserId(1), UserId(2)},
        q \in {<<>>, <<"a", ".", "b">>, <<" ", "A", " ">>},
        t \in {"", "need", "HAVE", "ALL"} }

GetQueries ==
    { [userId |-> NoId, q |-> <<>>, type |-> ""],
      [userId |-> UserId(1), q |-> <<"a", ".", "b">>, type |-> "need"],
      [userId |-> BadId, q |-> <<>>, type |-> "HAVE"] }

InitPosts ==
    /\ isConnected = TRUE /\ readyState = 1
    /\ NoClient
    /\ variant = "express"
    /\ jwtSecret = ConfiguredSecret
    /\ now = 0
    /\ users = SeedUsers
    /\ posts = {}
    /\ nextUid = Cardinality(SeedUsers)
    /\ nextPid = 0
    /\ reqs = [s \in Slots |-> Idle]
    /\ nreq = 0
    /\ issued = SeedTokens
    /\ postLog = {}
    /\ images = {}

NextPosts ==
    \/ \E s \in Slots, h \in PostHeaders, b \in PostBodies : ExPostArrive(s, h, b)
    \/ \E s \in Slots : ExAuthFindUser(s)
    \/ \E s \in Slots : ExPostUpload(s)
    \/ \E s \in Slots : ExPostFindUser(s)
    \/ \E s \in Slots : ExPostSave(s)
    \/ \E s \in Slots, h \in PostHeaders, id \in DeleteIds : ExDeleteArrive(s, h, id)
    \/ \E s \in Slots : ExDeleteFindPost(s)
    \/ \E s \in Slots : ExDeleteDelete(s)
    \/ \E s \in Slots, q \in GetQueries : ExGetFind(s, q)
    \/ \E s \in Slots : ExGetHydrate(s)
    \/ \E s \in Slots : Recycle(s)

SpecPosts == InitPosts /\ [][NextPosts]_vars

(***************************************************************************)
(* The identity middleware over time: tokens are issued by login, the      *)
(* clock advances, and the tokens are presented to DELETE /api/posts/:id.  *)
(***************************************************************************)
TokenSlots == {1}

Tick ==
    /\ now < MaxClock
    /\ now' = now + 1
    /\ UNCHANGED <<isConnected, readyState, clientVars, variant, jwtSecret, users, posts, nextUid, nextPid, reqs, nreq, issued, postLog, images>>

\* a token whose signature does not verify
Tampered(t) == [t EXCEPT !.sig = "forged"]

\* the Authorization headers a client can send
TokenHeaders ==
    { Header("Bearer", t) : t \in issued }
    \cup { Header("Basic", t) : t \in issued }
    \cup { Header("Bearer", Tampered(t)) : t \in issued }
    \cup { NoHeader, Header("Bearer", NoToken), Header("Bearer", MalformedToken) }

TokenLoginBodies ==
    { [email |-> [local |-> <<"A">>, domain |-> "X.com"], password |-> "secret1"],
      [email |-> [local |-> <<"b">>, domain |-> "x.com"], password |-> "secret2"] }

TokenDeleteIds == {PostId(1)}

SeedPost ==
    [id |-> PostId(1), type |-> "NEED", content |-> <<"a">>, userId |-> UserId(1),
     imageUrl |-> "", createdAt |-> 0]

InitToken ==
    /\ isConnected = TRUE /\ readyState = 1
    /\ NoClient
    /\ variant = "express"
    /\ jwtSecret = ConfiguredSecret
    /\ now = 0
    /\ users = SeedUsers
    /\ posts = {SeedPost}
    /\ nextUid = Cardinality(SeedUsers)
    /\ nextPid = 1
    /\ reqs = [s \in Slots |-> Idle]
    /\ nreq = 0
    /\ issued = {}
    /\ postLog = {}
    /\ images = {}

NextToken ==
    \/ Tick
    \/ \E s \in TokenSlots, b \in TokenLoginBodies : ExLoginValidate(s, b)
    \/ \E s \in TokenSlots : ExLoginFindOne(s)
    \/ \E s \in TokenSlots, h \in TokenHeaders, id \in TokenDeleteIds :
          ExDeleteArrive(s, h, id)
    \/ \E s \in TokenSlots : ExAuthFindUser(s)
    \/ \E s \in TokenSlots : ExDeleteFindPost(s)
    \/ \E s \in TokenSlots : ExDeleteDelete(s)
    \/ \E s \in TokenSlots : Recycle(s)

SpecToken == InitToken /\ [][NextToken]_vars

(***************************************************************************)
(* The serverless post functions: POST /api/posts (handlePost) and         *)
(* DELETE /api/posts/[id].                                                 *)
(***************************************************************************)
\* process.env.JWT_SECRET || 'your-default-secret'
SlsSecret == IF jwtSecret = "unset" THEN DefaultSecret ELSE jwtSecret

\* verifyToken: the decoded claims, or null
verifyToken(token) ==
    LET v == jwtVerify(token, SlsSecret, now) IN
    IF v.ok THEN v.claims ELSE NoClaims

\* handlePost up to its first await: token, validation
SlsPostArrive(s, h, b) ==
    /\ variant = "sls"
    /\ reqs[s] = Idle
    /\ nreq < MaxReqs
    /\ nreq' = nreq + 1
    /\ LET token == SecondWord(h)
           decoded == verifyToken(token)
           r == [kind |-> "slsPost", pc |-> "save", header |-> h, at |-> now,
                 decoded |-> decoded, body |-> b, imageUrl |-> "", saved |-> NoPost,
                 orphan |-> IsOrphan(token, SlsSecret),
                 resp |-> NoResp]
       IN reqs' = [reqs EXCEPT ![s] =
            IF token = NoToken
            THEN Respond([r EXCEPT !.decoded = NoClaims],
                         [status |-> 401, message |-> "Unauthorized"])
            ELSE IF decoded = NoClaims
            THEN Respond(r, [status |-> 401, message |-> "Invalid token"])
            ELSE IF ~(b.type \in {"NEED", "HAVE"})
            THEN Respond(r, [status |-> 400, message |-> "Invalid post type"])
            ELSE IF trim(b.content) = <<>>
            THEN Respond(r, [status |-> 400, message |-> "Content is required"])
            ELSE IF b.type = "HAVE" /\ b.image # ""
            THEN [r EXCEPT !.pc = "upload"]
            ELSE r]
    /\ UNCHANGED <<isConnected, readyState, clientVars, variant, jwtSecret, now, users, posts, nextUid, nextPid, issued, postLog, images>>

\* the catch block around cloudinary.uploader.upload
SlsUploadError_Mut(r) ==
    [r EXCEPT !.imageUrl = "https://res.cloudinary.com/" \o FreshImage, !.pc = "save"]

SlsUploadError(r) == Respond(r, [status |-> 500, message |-> "Error uploading image"])

\* cloudinary.uploader.upload(image, ...): it stores the image and returns
\* its secure_url, or it throws
SlsPostUpload(s) ==
    /\ variant = "sls"
    /\ reqs[s].kind = "slsPost" /\ reqs[s].pc = "upload"
    /\ \E uploaded \in BOOLEAN :
         LET secure_url == "https://res.cloudinary.com/" \o FreshImage IN
         IF uploaded
         THEN /\ images' = images \cup {secure_url}
              /\ reqs' = [reqs EXCEPT ![s] =
                    [reqs[s] EXCEPT !.imageUrl = secure_url, !.pc = "save"]]
         ELSE /\ images' = images
              /\ reqs' = [reqs EXCEPT ![s] = SlsUploadError(reqs[s])]
    /\ UNCHANGED <<isConnected, readyState, clientVars, variant, jwtSecret, now, users, posts, nextUid, nextPid, nreq, issued, postLog>>

\* new Post({...}).save()
SlsPostSave(s) ==
    /\ variant = "sls"
    /\ reqs[s].kind = "slsPost" /\ reqs[s].pc = "save"
    /\ LET r == reqs[s]
           newPost == [id |-> PostId(nextPid + 1),
                       type |-> r.body.type,
                       content |-> trim(r.body.content),
                       userId |-> r.decoded.userId,
                       imageUrl |-> r.imageUrl,
                       createdAt |-> now]
       IN /\ posts' = posts \cup {newPost}
          /\ nextPid' = nextPid + 1
          /\ reqs' = [reqs EXCEPT ![s] = [r EXCEPT !.saved = newPost, !.pc = "findUser"]]
    /\ UNCHANGED <<isConnected, readyState, clientVars, variant, jwtSecret, now, users, nextUid, nreq, issued, postLog, images>>

\* User.findById(decoded.userId).select('username') and the 201 response
SlsPostFindUser(s) ==
    /\ variant = "sls"
    /\ reqs[s].kind = "slsPost" /\ reqs[s].pc = "findUser"
    /\ LET r == reqs[s]
           found == { u \in users : u.id = r.decoded.userId }
           userName == IF found = {} THEN UnknownUser
                       ELSE (CHOOSE u \in found : TRUE).username
       IN reqs' = [reqs EXCEPT ![s] =
                     Respond(r, [status |-> 201,
                                 data |-> r.saved @@ [userName |-> userName]])]
    /\ UNCHANGED <<isConnected, readyState, clientVars, variant, jwtSecret, now, users, posts, nextUid, nextPid, nreq, issued, postLog, images>>

\* the DELETE function up to its first store access: the id and the header
SlsDeleteArrive(s, h, id) ==
    /\ variant = "sls"
    /\ reqs[s] = Idle
    /\ nreq < MaxReqs
    /\ nreq' = nreq + 1
    /\ LET r == [kind |-> "slsDelete", pc |-> "findPost", header |-> h, at |-> now,
                 id |-> id, post |-> NoPost,
                 orphan |-> IsOrphan(SecondWord(h), SlsSecret),
                 resp |-> NoResp]
       IN reqs' = [reqs EXCEPT ![s] =
            IF id = NoId
            THEN Respond(r, [status |-> 400, message |-> "Post ID is required"])
            ELSE IF ~StartsWithBearer(h)
            THEN Respond(r, [status |-> 401, message |-> "Unauthorized"])
            ELSE r]
    /\ UNCHANGED <<isConnected, readyState, clientVars, variant, jwtSecret, now, users, posts, nextUid, nextPid, issued, postLog, images>>

\* Post.findById(id)
SlsDeleteFindPost(s) ==
    /\ variant = "sls"
    /\ reqs[s].kind = "slsDelete" /\ reqs[s].pc = "findPost"
    /\ LET r == reqs[s]
           found == { p \in posts : p.id = r.id }
       IN reqs' = [reqs EXCEPT ![s] =
            IF ~IsObjectId(r.id)
            THEN Respond(r, [status |-> 500, message |-> "Internal server error"])
            ELSE IF found = {}
            THEN Respond(r, [status |-> 404, message |-> "Post not found"])
            ELSE [r EXCEPT !.post = CHOOSE p \in found : TRUE, !.pc = "delete"]]
    /\ UNCHANGED <<isConnected, readyState, clientVars, variant, jwtSecret, now, users, posts, nextUid, nextPid, nreq, issued, postLog, images>>

\* Post.findByIdAndDelete(id) and the 200 response
SlsDeleteDelete(s) ==
    /\ variant = "sls"
    /\ reqs[s].kind = "slsDelete" /\ reqs[s].pc = "delete"
    /\ LET r == reqs[s] IN
         /\ posts' = WithoutPost(r.id)
         /\ postLog' = postLog \cup
               {[post |-> r.post, by |-> NoId, header |-> r.header, at |-> r.at]}
         /\ reqs' = [reqs EXCEPT ![s] =
                       Respond(r, [status |-> 200, message |-> "Post deleted successfully"])]
    /\ UNCHANGED <<isConnected, readyState, clientVars, variant, jwtSecret, now, users, nextUid, nextPid, nreq, issued, images>>

SlsSeedUsers ==
    { [id |-> UserId(1), username |-> Ann,
       email |-> [local |-> <<"a">>, domain |-> "x.com"],
       password |-> bcryptHash("secret1", "s1", 10)],
      [id |-> UserId(2), username |-> Bob,
       email |-> [local |-> <<"b">>, domain |-> "x.com"],
       password |-> bcryptHash("secret2", "s1", 10)] }

SlsSeedTokens ==
    { jwtSign([userId |-> u.id, email |-> u.email, username |-> u.username],
              ConfiguredSecret, 0) : u \in SlsSeedUsers }

SlsHeaders ==
    { Header("Bearer", t) : t \in SlsSeedTokens }
    \cup { NoHeader, Header("Bearer", MalformedToken) }

\* the last body has a content one character longer than the schema of the
\* Express backend allows
SlsPostBodies ==
    { [type |-> "NEED", content |-> <<"a", ".", "b">>, image |-> ""],
      [type |-> "HAVE", content |-> <<" ", "A", "x", "b">>, image |-> "data:image/png"],
      [type |-> "WANT", content |-> <<"a">>, image |-> ""],
      [type |-> "NEED", content |-> <<" ">>, image |-> ""],
      [type |-> "NEED", content |-> [i \in 1..1001 |-> "a"], image |-> ""] }

SlsDeleteIds == {PostId(1), BadId, NoId}

InitSls ==
    /\ isConnected = TRUE /\ readyState = 1
    /\ NoClient
    /\ variant = "sls"
    /\ jwtSecret = ConfiguredSecret
    /\ now = 0
    /\ users = SlsSeedUsers
    /\ posts = {}
    /\ nextUid = Cardinality(SlsSeedUsers)
    /\ nextPid = 0
    /\ reqs = [s \in Slots |-> Idle]
    /\ nreq = 0
    /\ issued = SlsSeedTokens
    /\ postLog = {}
    /\ images = {}

NextSls ==
    \/ \E s \in Slots, h \in SlsHeaders, b \in SlsPostBodies : SlsPostArrive(s, h, b)
    \/ \E s \in Slots : SlsPostUpload(s)
    \/ \E s \in Slots : SlsPostSave(s)
    \/ \E s \in Slots : SlsPostFindUser(s)
    \/ \E s \in Slots, h \in SlsHeaders, id \in SlsDeleteIds : SlsDeleteArrive(s, h, id)
    \/ \E s \in Slots : SlsDeleteFindPost(s)
    \/ \E s \in Slots : SlsDeleteDelete(s)
    \/ \E s \in Slots : Recycle(s)

SpecSls == InitSls /\ [][NextSls]_vars

(***************************************************************************)
(* Creating posts in both backends while accounts disappear: a user        *)
(* document can be removed from the collection (no route of the API does   *)
(* it, the database is shared with its administrators) while the tokens    *)
(* issued to that user are still in the hands of the client.               *)
(***************************************************************************)
\* the users collection loses the document u
DropUser(u) ==
    /\ u \in users
    /\ users' = users \ {u}
    /\ UNCHANGED <<isConnected, readyState, clientVars, variant, jwtSecret, now, posts, nextUid, nextPid, reqs, nreq, issued, postLog, images>>

CreateHeaders(tokens) ==
    { Header("Bearer", t) : t \in tokens } \cup { NoHeader, Header("Bearer", MalformedToken) }

\* the form the client submits: Feed.handleSubmit also sends a userId field
ExCreateBodies ==
    { [type |-> "NEED", content |-> <<"a">>, file |-> "none", userId |-> UserId(2)],
      [type |-> "HAVE", content |-> <<"b">>, file |-> "image", userId |-> UserId(1)],
      [type |-> "HAVE", content |-> <<"b">>, file |-> "tooLarge", userId |-> UserId(1)],
      [type |-> "HAVE", content |-> <<"b">>, file |-> "notImage", userId |-> UserId(1)] }

SlsCreateBodies ==
    { [type |-> "NEED", content |-> <<"a">>, image |-> "", userId |-> UserId(2)],
      [type |-> "HAVE", content |-> <<"b">>, image |-> "data:image/png", userId |-> UserId(1)] }

CreateDeleteIds == {PostId(1)}

InitCreate ==
    /\ isConnected = TRUE /\ readyState = 1
    /\ NoClient
    /\ variant \in {"express", "sls"}
    /\ jwtSecret = ConfiguredSecret
    /\ now = 0
    /\ users = IF variant = "express" THEN SeedUsers ELSE SlsSeedUsers
    /\ posts = {}
    /\ nextUid = 2
    /\ nextPid = 0
    /\ reqs = [s \in Slots |-> Idle]
    /\ nreq = 0
    /\ issued = IF variant = "express" THEN SeedTokens ELSE SlsSeedTokens
    /\ postLog = {}
    /\ images = {}

NextCreate ==
    \/ \E s \in Slots, h \in CreateHeaders(issued), b \in ExCreateBodies : ExPostArrive(s, h, b)
    \/ \E s \in Slots : ExAuthFindUser(s)
    \/ \E s \in Slots : ExPostUpload(s)
    \/ \E s \in Slots : ExPostFindUser(s)
    \/ \E s \in Slots : ExPostSave(s)
    \/ \E s \in Slots, h \in CreateHeaders(issued), b \in SlsCreateBodies : SlsPostArrive(s, h, b)
    \/ \E s \in Slots : SlsPostUpload(s)
    \/ \E s \in Slots : SlsPostSave(s)
    \/ \E s \in Slots : SlsPostFindUser(s)
    \/ \E s \in Slots : Recycle(s)

SpecCreate == InitCreate /\ [][NextCreate]_vars

\* the same requests and the DELETE requests while accounts disappear
NextOrphan ==
    \/ \E u \in users : DropUser(u)
    \/ \E s \in Slots, h \in CreateHeaders(issued), b \in ExCreateBodies : ExPostArrive(s, h, b)
    \/ \E s \in Slots : ExAuthFindUser(s)
    \/ \E s \in Slots : ExPostUpload(s)
    \/ \E s \in Slots : ExPostFindUser(s)
    \/ \E s \in Slots : ExPostSave(s)
    \/ \E s \in Slots, h \in CreateHeaders(issued), id \in CreateDeleteIds :
          ExDeleteArrive(s, h, id)
    \/ \E s \in Slots : ExDeleteFindPost(s)
    \/ \E s \in Slots : ExDeleteDelete(s)
    \/ \E s \in Slots, h \in CreateHeaders(issued), b \in SlsCreateBodies : SlsPostArrive(s, h, b)
    \/ \E s \in Slots : SlsPostUpload(s)
    \/ \E s \in Slots : SlsPostSave(s)
    \/ \E s \in Slots : SlsPostFindUser(s)
    \/ \E s \in Slots, h \in CreateHeaders(issued), id \in CreateDeleteIds :
          SlsDeleteArrive(s, h, id)
    \/ \E s \in Slots : SlsDeleteFindPost(s)
    \/ \E s \in Slots : SlsDeleteDelete(s)
    \/ \E s \in Slots : Recycle(s)

SpecOrphan == InitCreate /\ [][NextOrphan]_vars

(***************************************************************************)
(* The feed.  The collection holds some of the posts that were created     *)
(* before: posts of Ann and of Bob, two of them created at the same time,  *)
(* and a post written by an earlier version of the application whose       *)
(* userId is no ObjectId (the case the filter on validUserIds is for).     *)
(* Accounts can disappear while the feed is read.                          *)
(***************************************************************************)
FeedSlots == {1}

FeedPool ==
    { [id |-> PostId(1), type |-> "NEED", content |-> <<"a", ".", "b">>,
       userId |-> UserId(1), imageUrl |-> "", createdAt |-> 0],
      [id |-> PostId(2), type |-> "HAVE", content |-> <<"A", "x", "b">>,
       userId |-> UserId(2), imageUrl |-> "", createdAt |-> 1],
      [id |-> PostId(3), type |-> "NEED", content |-> <<"(", "x">>,
       userId |-> UserId(1), imageUrl |-> "", createdAt |-> 1],
      [id |-> PostId(4), type |-> "HAVE", content |-> <<"a">>,
       userId |-> BadId, imageUrl |-> "", createdAt |-> 2] }

InitFeed ==
    /\ isConnected = TRUE /\ readyState = 1
    /\ NoClient
    /\ variant \in {"express", "sls"}
    /\ jwtSecret = ConfiguredSecret
    /\ now = 2
    /\ users = IF variant = "express" THEN SeedUsers ELSE SlsSeedUsers
    /\ posts \in SUBSET FeedPool
    /\ nextUid = 2
    /\ nextPid = 4
    /\ reqs = [s \in Slots |-> Idle]
    /\ nreq = 0
    /\ issued = IF variant = "express" THEN SeedTokens ELSE SlsSeedTokens
    /\ postLog = {}
    /\ images = {}

\* the query parameters of GET /api/posts; UserId(3) is the id of no user
FeedQueries ==
    { [userId |-> u, q |-> q, type |-> t] :
        u \in {NoId, UserId(1), UserId(2), UserId(3), BadId},
        q \in {<<>>, <<"a", ".", "b">>, <<" ", "A", " ">>, <<".">>, <<"(", "x">>},
        t \in {"", "need", "HAVE", "ALL"} }

NextFeed ==
    \/ \E u \in users : DropUser(u)
    \/ \E s \in FeedSlots, q \in FeedQueries : ExGetFind(s, q)
    \/ \E s \in FeedSlots : ExGetHydrate(s)
    \/ \E s \in FeedSlots, q \in FeedQueries : SlsGetFind(s, q)
    \/ \E s \in FeedSlots : SlsGetHydrate(s)
    \/ \E s \in FeedSlots : Recycle(s)

SpecFeed == InitFeed /\ [][NextFeed]_vars

(***************************************************************************)
(* The free-text search, over every short string of letters, blanks and    *)
(* pattern metacharacters.                                                 *)
(***************************************************************************)
SearchChars == {"a", "B", " ", ".", "(", ")", "[", "\\"}

MaxQueryLen == 2

SearchInputs == UNION { [1..n -> SearchChars] : n \in 0..MaxQueryLen }

SearchPool ==
    { [id |-> PostId(1), type |-> "NEED", content |-> <<"a", ".", "b">>,
       userId |-> UserId(1), imageUrl |-> "", createdAt |-> 0],
      [id |-> PostId(2), type |-> "HAVE", content |-> <<"A", "x", "b">>,
       userId |-> UserId(2), imageUrl |-> "", createdAt |-> 1],
      [id |-> PostId(3), type |-> "NEED", content |-> <<"(", "b", ")", "a">>,
       userId |-> UserId(1), imageUrl |-> "", createdAt |-> 2],
      [id |-> PostId(4), type |-> "HAVE", content |-> <<"[", "a", " ", "\\">>,
       userId |-> UserId(2), imageUrl |-> "", createdAt |-> 2] }

InitSearch ==
    /\ isConnected = TRUE /\ readyState = 1
    /\ NoClient
    /\ variant \in {"express", "sls"}
    /\ jwtSecret = ConfiguredSecret
    /\ now = 2
    /\ users = IF variant = "express" THEN SeedUsers ELSE SlsSeedUsers
    /\ posts = SearchPool
    /\ nextUid = 2
    /\ nextPid = 4
    /\ reqs = [s \in Slots |-> Idle]
    /\ nreq = 0
    /\ issued = IF variant = "express" THEN SeedTokens ELSE SlsSeedTokens
    /\ postLog = {}
    /\ images = {}

SearchQueries == { [userId |-> NoId, q |-> q, type |-> ""] : q \in SearchInputs }

NextSearch ==
    \/ \E s \in FeedSlots, q \in SearchQueries : ExGetFind(s, q)
    \/ \E s \in FeedSlots : ExGetHydrate(s)
    \/ \E s \in FeedSlots, q \in SearchQueries : SlsGetFind(s, q)
    \/ \E s \in FeedSlots : SlsGetHydrate(s)
    \/ \E s \in FeedSlots : Recycle(s)

SpecSearch == InitSearch /\ [][NextSearch]_vars

(***************************************************************************)
(* A deployment without JWT_SECRET.  startServer connects the store and    *)
(* listens; it does not read the secret, and the serverless functions have *)
(* no start-up step at all, so both backends serve requests.               *)
(***************************************************************************)
InitUnset ==
    /\ isConnected = TRUE /\ readyState = 1
    /\ NoClient
    /\ variant \in {"express", "sls"}
    /\ jwtSecret = "unset"
    /\ now = 0
    /\ users = {}
    /\ posts = {}
    /\ nextUid = 0
    /\ nextPid = 0
    /\ reqs = [s \in Slots |-> Idle]
    /\ nreq = 0
    /\ issued = {}
    /\ postLog = {}
    /\ images = {}

\* the headers of a client that holds the tokens the server returned
UnsetHeaders == { Header("Bearer", t) : t \in issued } \cup { Header("Bearer", MalformedToken) }

NextUnset ==
    \/ \E s \in Slots, b \in RegisterBodies : ExRegisterValidate(s, b)
    \/ \E s \in Slots : ExRegisterFindOne(s)
    \/ \E s \in Slots : ExRegisterSave(s)
    \/ \E s \in Slots, b \in TokenLoginBodies : ExLoginValidate(s, b)
    \/ \E s \in Slots : ExLoginFindOne(s)
    \/ \E s \in Slots, h \in UnsetHeaders, id \in CreateDeleteIds : ExDeleteArrive(s, h, id)
    \/ \E s \in Slots, b \in RegisterBodies : SlsRegisterValidate(s, b)
    \/ \E s \in Slots : SlsRegisterFindOne(s)
    \/ \E s \in Slots : SlsRegisterSave(s)
    \/ \E s \in Slots, h \in UnsetHeaders, b \in SlsCreateBodies : SlsPostArrive(s, h, b)
    \/ \E s \in Slots : SlsPostUpload(s)
    \/ \E s \in Slots : SlsPostSave(s)
    \/ \E s \in Slots : SlsPostFindUser(s)
    \/ \E s \in Slots : Recycle(s)

SpecUnset == InitUnset /\ [][NextUnset]_vars

(***************************************************************************)
(* Properties of the identity checks.                                      *)
(***************************************************************************)
\* C2: the serverless DELETE removes a post only on a request that carries
\* a verified token whose subject is the author of the post; on any other
\* request it answers 401 or 403 and the post stays in the store.
C2_SlsDeleteOnlyByVerifiedOwner ==
    /\ \A e \in postLog :
        /\ StartsWithBearer(e.header)
        /\ jwtVerify(SecondWord(e.header), SlsSecret, e.at).ok
        /\ SecondWord(e.header).claims.userId = e.post.userId
    /\ \A s \in Slots :
        LET r == reqs[s] IN
        (r.kind = "slsDelete" /\ IsDone(r) /\ r.post # NoPost
            /\ ~(/\ jwtVerify(SecondWord(r.header), SlsSecret, r.at).ok
                 /\ SecondWord(r.header).claims.userId = r.post.userId)) =>
            r.resp.status \in {401, 403}

\* C8: a token issued to a user at time t0 is accepted by the middleware,
\* and resolves to that user's id, on every request made at a time before
\* t0 + 7 days, and is rejected with 401 on every request made at t0 + 7
\* days or later, whatever requests used it before; the expiry of an issued
\* token is its issue time plus 7 days.  Times are read on the clock of the
\* token service.
C8_TokenValidForSevenDays ==
    /\ \A t \in issued : /\ t.exp = t.iat + ExpiresIn
                         /\ t.iat <= now
                         /\ \E u \in users : u.id = t.claims.userId
    /\ \A s \in TokenSlots :
        LET r == reqs[s]
            t == r.header.token
        IN (r.kind = "deletePost" /\ r.header.scheme = "Bearer" /\ t \in issued) =>
            /\ r.at < t.iat + ExpiresIn =>
                 /\ r.decoded = t.claims
                 /\ r.pc # "authFindUser" =>
                      /\ r.user.id = t.claims.userId
                      /\ IsDone(r) => r.resp.status # 401
            /\ r.at >= t.iat + ExpiresIn =>
                 /\ IsDone(r) /\ r.resp.status = 401
                 /\ r.user = NoUser

\* a token is accepted on the last day of its life, days after its issue
C8_Witness ==
    \E s \in TokenSlots :
        /\ reqs[s].kind = "deletePost"
        /\ reqs[s].header.scheme = "Bearer"
        /\ reqs[s].header.token \in issued
        /\ reqs[s].at = reqs[s].header.token.iat + ExpiresIn - 1
        /\ reqs[s].header.token.iat > 0
        /\ reqs[s].user.id = reqs[s].header.token.claims.userId

\* C9: the middleware answers a correctly signed but expired token with
\* 'Token expired', which differs from its answer 'Invalid token' to a token
\* with a corrupted signature or a malformed structure.
C9_ExpiredDistinctFromInvalid ==
    \A s \in TokenSlots :
        LET r == reqs[s] IN
        (r.kind = "deletePost" /\ IsDone(r)
            /\ r.header.token.kind = "jwt"
            /\ r.header.token.sig = jwtSecret
            /\ r.at >= r.header.token.exp) =>
            /\ r.resp = [status |-> 401, message |-> "Token expired"]
            /\ r.resp # AuthErrorResp("JsonWebTokenError")

\* C10: a request to a protected endpoint whose Authorization header is
\* absent or of another scheme than Bearer never reaches the handler and is
\* answered 401.
C10_NonBearerRejected ==
    \A s \in TokenSlots :
        LET r == reqs[s] IN
        (r.kind = "deletePost" /\ ~StartsWithBearer(r.header)) =>
            /\ r.user = NoUser
            /\ r.pc \in {"authFindUser", "done"}
            /\ IsDone(r) => r.resp.status = 401

(***************************************************************************)
(* Properties of the Express post routes.                                  *)
(***************************************************************************)
\* C1: a DELETE by an authenticated requester on a stored post of another
\* user is answered 403 and does not remove the post: every post that was
\* ever removed was removed by a request of its author, and the post a
\* non-author asked for is in the store unless its author removed it.
C1_NonOwnerDeleteForbidden ==
    /\ \A e \in postLog : e.by = e.post.userId
    /\ \A s \in Slots :
        LET r == reqs[s] IN
        (r.kind = "deletePost" /\ r.user # NoUser /\ r.post # NoPost
            /\ r.post.userId # r.user.id) =>
            /\ IsDone(r)
            /\ r.resp.status = 403
            /\ r.post \in posts \/ \E e \in postLog : e.post = r.post

\* a non-author has been refused and the post is still stored
C1_Witness ==
    \E s \in Slots :
        /\ reqs[s].kind = "deletePost" /\ IsDone(reqs[s])
        /\ reqs[s].resp.status = 403
        /\ reqs[s].post \in posts
        /\ reqs[s].user.id # reqs[s].post.userId

\* C3: a DELETE by the author of a post that the handler found in the store
\* is answered 200; a post whose DELETE was answered 200 is in the result
\* of no later GET /api/posts, whatever the userId, q and type parameters.
C3_AuthorDeleteRemovesFromFeed ==
    /\ \A s \in Slots :
        LET r == reqs[s] IN
        (r.kind = "deletePost" /\ IsDone(r)) =>
            /\ (r.post # NoPost /\ r.post.userId = r.user.id) => r.resp.status = 200
            /\ r.resp.status = 200 => \E e \in postLog : e.post.id = r.id
    /\ \A e \in postLog : \A q \in Queries : \A p \in Find(q) : p.id # e.post.id
    /\ \A s \in Slots :
        LET r == reqs[s] IN
        r.kind = "getPosts" =>
            /\ \A i \in 1..Len(r.found) : r.found[i].id \notin r.removedBefore
            /\ (IsDone(r) /\ r.resp.status = 200) =>
                 \A i \in 1..Len(r.resp.list) : r.resp.list[i].id \notin r.removedBefore

\* a feed has been served after an author removed a post
C3_Witness ==
    \E s \in Slots :
        /\ reqs[s].kind = "getPosts" /\ IsDone(reqs[s])
        /\ reqs[s].resp.status = 200
        /\ reqs[s].removedBefore # {}
        /\ \E e \in postLog : e.by = e.post.userId

(***************************************************************************)
(* Properties of registration and login.                                   *)
(***************************************************************************)
\* the lower-cased form of an address, as a reader of the contract computes it
LowerCased(e) == [local |-> ToLowerSeq(e.local), domain |-> LowerDomain(e.domain)]

WellFormed(r) == r.resp.status # 400

C5_ConcurrentRegistrationOneWinner ==
    /\ \A u1, u2 \in users : SameIgnoringCase(u1.email, u2.email) => u1 = u2
    /\ \A s \in Slots :
        LET r == reqs[s] IN
        (r.kind = "register" /\ IsDone(r) /\ WellFormed(r)
            /\ UsersWithEmail(r.given) # {}) =>
            /\ r.resp.status \in {201, 409}
            /\ r.resp.status = 201 <=> r.inserted

\* C6: a well-formed login that fails because no user has the email and one
\* that fails because the password does not match get the same response,
\* status 401 with the same body.
C6_LoginFailuresIndistinguishable ==
    \A s1, s2 \in Slots :
        LET r1 == reqs[s1]
            r2 == reqs[s2]
        IN (/\ r1.kind = "login" /\ IsDone(r1) /\ WellFormed(r1)
            /\ r2.kind = "login" /\ IsDone(r2) /\ WellFormed(r2)
            /\ r1.found = NoUser
            /\ r2.found # NoUser /\ r2.resp.status # 200) =>
               /\ r1.resp.status = 401
               /\ r1.resp = r2.resp

\* both kinds of failed login have been answered
C6_Witness ==
    \E s1, s2 \in Slots :
        /\ reqs[s1].kind = "login" /\ IsDone(reqs[s1]) /\ WellFormed(reqs[s1])
        /\ reqs[s2].kind = "login" /\ IsDone(reqs[s2]) /\ WellFormed(reqs[s2])
        /\ reqs[s1].found = NoUser
        /\ reqs[s2].found # NoUser /\ reqs[s2].resp.status = 401

\* C7: (the claim as stated) login answers 200 exactly when the store, as the lookup saw
\* it, holds a user whose email equals the lower-cased request email and
\* whose hash matches the password.
C7_LoginExactlyOnLowerCasedMatch ==
    \A s \in Slots :
        LET r == reqs[s] IN
        (r.kind = "login" /\ IsDone(r)) =>
            (r.resp.status = 200 <=>
                \E u \in r.seen : /\ u.email = LowerCased(r.given)
                                  /\ u.password.digest = r.body.password)

\* C7: (the claim as amended) login answers 200 exactly when the store, as the lookup
\* saw it, holds a user whose email equals the request email as the login
\* validator normalizes it (lower-cased, a gmail address without the dots of
\* its local part) and whose hash matches the password; the response then
\* carries a token for that user.
C7_LoginExactlyOnNormalizedMatch ==
    \A s \in Slots :
        LET r == reqs[s] IN
        (r.kind = "login" /\ IsDone(r)) =>
            /\ r.resp.status = 200 <=>
                 \E u \in r.seen : /\ u.email = normalizeEmail(r.given)
                                   /\ u.password.digest = r.body.password
            /\ r.resp.status = 200 =>
                 /\ r.resp.token.claims.userId = r.found.id
                 /\ r.found.email = normalizeEmail(r.given)

\* a user has logged in with an address written in upper case
C7_Witness ==
    \E s \in Slots :
        /\ reqs[s].kind = "login" /\ IsDone(reqs[s])
        /\ reqs[s].resp.status = 200
        /\ reqs[s].given # LowerCased(reqs[s].given)

\* C12: without a configured signing secret the server has failed at its
\* start: no register, login or authenticated request is ever handled, no
\* request is answered with a server error for the missing secret, and no
\* token is signed or verified with a substitute secret.
C12_UnsetSecretFailsAtStart ==
    jwtSecret = "unset" =>
        /\ nreq = 0
        /\ \A s \in Slots : reqs[s] = Idle
        /\ \A t \in issued : t.sig # DefaultSecret
        /\ \A s \in Slots : reqs[s].kind = "slsPost" => reqs[s].decoded = NoClaims

(***************************************************************************)
(* Properties of post creation.                                            *)
(***************************************************************************)
\* C11: a request whose token is correctly signed and unexpired, and whose
\* subject is the id of no user in the store as the request arrives, is
\* answered 401 and never reaches the part of a handler that changes the
\* store, in the Express backend and in the serverless one.
C11_OrphanTokenRejected ==
    \A s \in Slots :
        LET r == reqs[s] IN
        (r.kind \in {"createPost", "deletePost", "slsPost", "slsDelete"} /\ r.orphan) =>
            /\ r.pc \in {"authFindUser", "done"}
            /\ IsDone(r) => r.resp.status = 401

C20_NoDanglingImage ==
    /\ \A p \in posts : p.imageUrl # "" => p.imageUrl \in images
    /\ \A s \in Slots :
        LET r == reqs[s] IN
        /\ (r.kind = "slsPost" /\ r.body.type = "HAVE" /\ r.body.image # ""
                /\ r.pc # "upload" /\ r.decoded # NoClaims /\ r.imageUrl \notin images) =>
               /\ IsDone(r)
               /\ r.resp.status >= 400
               /\ r.saved = NoPost
        /\ (r.kind = "slsPost" /\ r.saved # NoPost /\ r.body.type = "HAVE"
                /\ r.body.image # "") => r.saved.imageUrl \in images
        /\ (r.kind = "createPost" /\ r.body.file \in {"tooLarge", "notImage"}
                /\ r.pc \notin {"authFindUser", "upload"}) =>
               /\ IsDone(r)
               /\ r.resp.status >= 400

\* an upload has failed and its request was answered with an error, while
\* a post with a stored image is in the store
C20_Witness ==
    /\ \E p \in posts : p.imageUrl \in images
    /\ \E s \in Slots :
        /\ reqs[s].kind = "slsPost" /\ IsDone(reqs[s])
        /\ reqs[s].body.image # "" /\ reqs[s].decoded # NoClaims
        /\ reqs[s].imageUrl = ""
        /\ reqs[s].resp.status = 500

(***************************************************************************)
(* Properties of the feed.                                                 *)
(***************************************************************************)
\* text contains sub as a substring, ignoring letter case
ContainsIgnoringCase(text, sub) ==
    \E i \in 0..(Len(text) - Len(sub)) :
        \A k \in 1..Len(sub) : LowerChar(text[i + k]) = LowerChar(sub[k])

\* the display name of a user document
DisplayName(u) == IF variant = "express" THEN u.name ELSE u.username

\* the userName of the contract for the author id of a post, over the
\* users collection us
AuthorName(id, us) ==
    IF \E u \in us : u.id = id
    THEN DisplayName(CHOOSE u \in us : u.id = id)
    ELSE UnknownUser

\* the requests of the feed that were answered with a list
Served(r) == r.kind = "getPosts" /\ IsDone(r) /\ r.resp.status = 200

\* C13: the list that GET /api/posts returns is ordered by createdAt
\* descending, whatever the store holds and whatever the userId, q and type
\* parameters: of two adjacent items the first is not older than the second.
C13_FeedNewestFirst ==
    \A s \in FeedSlots :
        LET r == reqs[s] IN
        /\ r.kind = "getPosts" =>
             \A i \in 1..(Len(r.found) - 1) :
                 r.found[i].createdAt >= r.found[i + 1].createdAt
        /\ Served(r) =>
             \A i \in 1..(Len(r.resp.list) - 1) :
                 r.resp.list[i].createdAt >= r.resp.list[i + 1].createdAt

\* a filtered list of posts of different ages has been returned
C13_Witness ==
    \E s \in FeedSlots :
        /\ Served(reqs[s])
        /\ reqs[s].query.type # ""
        /\ Len(reqs[s].resp.list) >= 2
        /\ reqs[s].resp.list[1].createdAt > reqs[s].resp.list[Len(reqs[s].resp.list)].createdAt
        /\ \E p \in reqs[s].scanned : p.createdAt > reqs[s].resp.list[1].createdAt

\* the posts of the collection S that a request with parameters q asks for,
\* the type parameter read as it is written
Selected(q, S) ==
    { p \in S :
        /\ q.userId # NoId => p.userId = q.userId
        /\ q.type \in {"NEED", "HAVE"} => p.type = q.type
        /\ trim(q.q) # <<>> => ContainsIgnoringCase(p.content, trim(q.q)) }

\* the same, the type parameter read in any letter case
SelectedAnyCase(q, S) ==
    { p \in S :
        /\ q.userId # NoId => p.userId = q.userId
        /\ TypeUpper(q.type) \in {"NEED", "HAVE"} => p.type = TypeUpper(q.type)
        /\ trim(q.q) # <<>> => ContainsIgnoringCase(p.content, trim(q.q)) }

\* the posts of a list, and the list has no post twice
ListedExactly(list, S) ==
    /\ { list[i].id : i \in 1..Len(list) } = { p.id : p \in S }
    /\ Len(list) = Cardinality(S)

\* C14: (the claim as stated) GET /api/posts returns exactly the stored
\* posts that satisfy the supplied constraints together: the userId when
\* given, the type when the parameter is NEED or HAVE and no type constraint
\* for any other value, the trimmed q as a substring of the content ignoring
\* case when it is not empty.
C14_FeedExactlyTheMatches ==
    \A s \in FeedSlots :
        LET r == reqs[s] IN
        /\ (r.kind = "getPosts" /\ r.pc = "hydrate") =>
               ListedExactly(r.found, Selected(r.query, r.scanned))
        /\ Served(r) => ListedExactly(r.resp.list, Selected(r.query, r.scanned))

\* C14: (the claim as amended) the same, with the type constraint applied
\* when the type parameter is NEED or HAVE in any letter case: the post's
\* type then equals the parameter in upper case.
C14_FeedExactlyTheMatchesAnyCase ==
    \A s \in FeedSlots :
        LET r == reqs[s] IN
        /\ (r.kind = "getPosts" /\ r.pc = "hydrate") =>
               ListedExactly(r.found, SelectedAnyCase(r.query, r.scanned))
        /\ Served(r) => ListedExactly(r.resp.list, SelectedAnyCase(r.query, r.scanned))

\* a request with all three constraints has left out posts that fail one
\* of them each and returned a post that satisfies them all
C14_Witness ==
    \E s \in FeedSlots :
        LET r == reqs[s] IN
        /\ Served(r)
        /\ r.query.userId # NoId /\ r.query.type = "need" /\ trim(r.query.q) # <<>>
        /\ Len(r.resp.list) >= 1
        /\ \E p \in r.scanned : p.userId # r.query.userId
        /\ \E p \in r.scanned : p.userId = r.query.userId /\ p.type = "NEED"
                                 /\ ~ContainsIgnoringCase(p.content, trim(r.query.q))

\* C15: for every free-text query of a feed request, made of
\* metacharacters or not, the query to the store does not fail on the
\* pattern built from it, and the pattern selects a post exactly when the
\* content contains the trimmed query as a literal substring, ignoring
\* letter case.
C15_SearchIsLiteral ==
    \A s \in FeedSlots :
        LET r == reqs[s] IN
        r.kind = "getPosts" =>
            /\ r.lookup = "none" => r.pc = "hydrate"
            /\ trim(r.query.q) # <<>> => RegexCompiles(EscapeRegex(trim(r.query.q)), 0)
            /\ \A p \in r.scanned :
                 (\E i \in 1..Len(r.found) : r.found[i].id = p.id)
                    <=> (trim(r.query.q) = <<>>
                           \/ ContainsIgnoringCase(p.content, trim(r.query.q)))

\* a query of metacharacters has returned the posts that contain it
\* literally and left out a post that the bare pattern would match
C15_Witness ==
    \E s \in FeedSlots :
        LET r == reqs[s] IN
        /\ Served(r)
        /\ \E i \in 1..Len(r.query.q) : r.query.q[i] \in RegexSpecial
        /\ Len(r.resp.list) >= 1
        /\ \E p \in r.scanned :
              /\ RegexTest(trim(r.query.q), p.content)
              /\ \A i \in 1..Len(r.resp.list) : r.resp.list[i].id # p.id

\* C16: in a feed request without the userId parameter whose user lookup
\* answers, every returned post carries the display name of the user whose
\* id is the post's userId, as the lookup read it, and 'Unknown User' when
\* there is no such user or the userId is no well-formed identifier; the
\* request is answered 200 with every post found.
C16_FeedAuthorNames ==
    \A s \in FeedSlots :
        LET r == reqs[s] IN
        (r.kind = "getPosts" /\ IsDone(r) /\ r.query.userId = NoId /\ r.lookup = "ok") =>
            /\ r.resp.status = 200
            /\ Len(r.resp.list) = Len(r.found)
            /\ \A i \in 1..Len(r.resp.list) :
                 /\ r.resp.list[i].id = r.found[i].id
                 /\ r.resp.list[i].userName = AuthorName(r.resp.list[i].userId, r.usersAt)
                 /\ ~IsObjectId(r.resp.list[i].userId) => r.resp.list[i].userName = UnknownUser

\* a feed has named one author and labelled a post of a missing author and
\* a post with a malformed userId 'Unknown User'
C16_Witness ==
    \E s \in FeedSlots :
        LET r == reqs[s] IN
        /\ Served(r) /\ r.query.userId = NoId /\ r.lookup = "ok"
        /\ \E i \in 1..Len(r.resp.list) : r.resp.list[i].userName \in {Ann, Bob}
        /\ \E i \in 1..Len(r.resp.list) :
              /\ IsObjectId(r.resp.list[i].userId)
              /\ r.resp.list[i].userName = UnknownUser
        /\ \E i \in 1..Len(r.resp.list) : r.resp.list[i].userId = BadId

\* C17: a feed request whose author-name lookup fails after the post query
\* succeeded is answered 200 with every post found, each labelled 'Unknown
\* User', in the Express backend and in the serverless one.
C17_LookupFailureDegrades ==
    \A s \in FeedSlots :
        LET r == reqs[s] IN
        (r.kind = "getPosts" /\ IsDone(r) /\ r.query.userId = NoId /\ r.lookup = "error") =>
            /\ r.resp.status = 200
            /\ Len(r.resp.list) = Len(r.found)
            /\ \A i \in 1..Len(r.resp.list) : r.resp.list[i].userName = UnknownUser

\* C18: a feed request filtered by userId whose user lookup answers is
\* answered 200 for every value of userId (of a user, of no user, or
\* malformed), and every returned post carries the userName the request
\* without the filter attaches to it.
C18_FilteredNamesAsBatch ==
    \A s \in FeedSlots :
        LET r == reqs[s] IN
        (r.kind = "getPosts" /\ IsDone(r) /\ r.query.userId # NoId /\ r.lookup = "ok") =>
            /\ r.resp.status = 200
            /\ \A i \in 1..Len(r.resp.list) :
                 r.resp.list[i].userName =
                     IF IsObjectId(r.resp.list[i].userId)
                     THEN AuthorName(r.resp.list[i].userId, r.usersAt)
                     ELSE UnknownUser

(***************************************************************************)
(* Properties of the error paths and of the stored data.                   *)
(***************************************************************************)
\* C21: in the Express backend an authenticated POST /api/posts whose file
\* the upload stage rejects (too large, or no image) is answered 400 with
\* the message for that file error, by the error mapping of the route and
\* not by the generic 500 handler, and stores no post.
C21_UploadRejectionIs400 ==
    \A s \in Slots :
        LET r == reqs[s] IN
        (r.kind = "createPost" /\ r.user # NoUser
            /\ r.body.file \in {"tooLarge", "notImage"} /\ r.pc # "upload") =>
            /\ IsDone(r)
            /\ r.resp.status = 400
            /\ r.resp.message = IF r.body.file = "tooLarge"
                                THEN "File too large. Maximum size is 5MB."
                                ELSE "Only image files are allowed"

\* C22: an authenticated DELETE /api/posts/:id whose id is the id of no
\* stored post (never created, already deleted, or malformed) is answered
\* 404 and removes nothing.
C22_DeleteMissingIs404 ==
    \A s \in Slots :
        LET r == reqs[s] IN
        (r.kind = "deletePost" /\ IsDone(r) /\ r.user # NoUser /\ r.post = NoPost) =>
            r.resp.status = 404

\* a post of the contract: its type, and its content trimmed and bounded
WellFormedPost(type, content) ==
    /\ type \in {"NEED", "HAVE"}
    /\ content = trim(content)
    /\ Len(content) >= 1 /\ Len(content) <= 1000

\* C23: every stored post has type NEED or HAVE and a trimmed content of 1
\* to 1000 characters, in both backends; an authenticated create request
\* whose post would not be so is answered 400 and stores nothing.
C23_StoredPostsWellFormed ==
    /\ \A p \in posts : WellFormedPost(p.type, p.content)
    /\ \A s \in Slots :
        LET r == reqs[s] IN
        /\ (r.kind = "createPost" /\ IsDone(r) /\ r.user # NoUser /\ r.body.file = "none"
                /\ ~WellFormedPost(r.body.type, trim(r.body.content))) =>
               r.resp.status = 400
        /\ (r.kind = "slsPost" /\ IsDone(r) /\ r.decoded # NoClaims
                /\ ~WellFormedPost(r.body.type, trim(r.body.content))) =>
               r.resp.status = 400 /\ r.saved = NoPost

\* C24: the password field of every stored user is a hash, and the hash of
\* the password the user registered with, never the plaintext; no response
\* carries a password or a password hash.
C24_PasswordsOnlyHashed ==
    /\ \A u \in users : /\ u.password.alg = "bcrypt"
                        /\ u.password.cost \in {10, 12}
                        /\ u.password # [alg |-> "plain", digest |-> u.password.digest]
    /\ \A s \in Slots :
        LET r == reqs[s] IN
        /\ (r.kind = "register" /\ IsDone(r) /\ r.resp.status = 201) =>
              \A u \in users : u.id = r.resp.user.id =>
                  comparePassword(r.body.password, u.password)
        /\ (r.kind # "idle" /\ IsDone(r)) =>
              /\ DOMAIN r.resp \subseteq {"status", "message", "user", "token", "data", "list"}
              /\ "user" \in DOMAIN r.resp =>
                    DOMAIN r.resp.user \subseteq {"id", "name", "username", "email"}
              /\ "token" \in DOMAIN r.resp =>
                    DOMAIN r.resp.token.claims \subseteq {"userId", "email", "username"}
              /\ "data" \in DOMAIN r.resp => "password" \notin DOMAIN r.resp.data
              /\ "list" \in DOMAIN r.resp =>
                    \A i \in 1..Len(r.resp.list) : "password" \notin DOMAIN r.resp.list[i]

\* a user has registered and logged in, and both responses carry the
\* public fields of the user
C24_Witness ==
    /\ \E s \in Slots :
        /\ reqs[s].kind = "login" /\ IsDone(reqs[s]) /\ reqs[s].resp.status = 200
        /\ \E u \in users : /\ u.id = reqs[s].resp.user.id
                            /\ u.password.digest = reqs[s].body.password
    /\ \E s \in Slots :
        /\ reqs[s].kind = "register" /\ IsDone(reqs[s]) /\ reqs[s].resp.status = 201

\* C27: of the concurrent DELETE requests of the author for one post,
\* exactly one is answered 200, the one that removed the post, and the
\* others are answered 404.
C27_ConcurrentDeleteOneWinner ==
    \A s1, s2 \in Slots :
        LET r1 == reqs[s1]
            r2 == reqs[s2]
        IN (/\ s1 # s2
            /\ r1.kind = "deletePost" /\ IsDone(r1)
            /\ r2.kind = "deletePost" /\ IsDone(r2)
            /\ r1.id = r2.id
            /\ r1.post # NoPost /\ r2.post = r1.post
            /\ r1.user.id = r1.post.userId /\ r2.user.id = r1.post.userId) =>
               ~(r1.resp.status = 200 /\ r2.resp.status = 200)

\* C28: a register request that is answered with anything but 201 has added
\* no user to the store.
C28_RegistrationAllOrNothing ==
    \A s \in Slots :
        LET r == reqs[s] IN
        (r.kind = "register" /\ IsDone(r) /\ r.resp.status # 201) => ~r.inserted

(***************************************************************************)
(* connectDB of the serverless functions.  Every function awaits it before *)
(* its first store access; MONGODB_URI is taken to be configured.  The     *)
(* call is one step up to `await mongoose.connect`, which puts the         *)
(* connection into the connecting state at once, and one step when the     *)
(* attempt settles.  A call records the readyState it saw when it was made *)
(* and when it returned, and the function that made it (api/posts or       *)
(* api/auth/register).                                                     *)
(***************************************************************************)
ConnectCall(caller, stateAtCall, attempted) ==
    [kind |-> "connectDB", pc |-> "connect", caller |-> caller, stateAtCall |-> stateAtCall,
     attempted |-> attempted, result |-> "none", stateAtReturn |-> stateAtCall]

Returned(c, state) ==
    [c EXCEPT !.pc = "done", !.result = "returned", !.stateAtReturn = state]

connectDB(s, caller) ==
    /\ variant = "sls"
    /\ reqs[s] = Idle
    /\ nreq < MaxReqs
    /\ nreq' = nreq + 1
    /\ IF isConnected
       THEN /\ reqs' = [reqs EXCEPT ![s] =
                          Returned(ConnectCall(caller, readyState, FALSE), readyState)]
            /\ UNCHANGED <<isConnected, readyState>>
       ELSE IF readyState # 0
       THEN /\ isConnected' = TRUE
            /\ reqs' = [reqs EXCEPT ![s] =
                          Returned(ConnectCall(caller, readyState, FALSE), readyState)]
            /\ UNCHANGED readyState
       ELSE /\ readyState' = 2
            /\ reqs' = [reqs EXCEPT ![s] = ConnectCall(caller, readyState, TRUE)]
            /\ UNCHANGED isConnected
    /\ UNCHANGED <<clientVars, variant, jwtSecret, now, users, posts, nextUid, nextPid, issued, postLog, images>>

\* mongoose.connect settles: the flag is set after a success, the error of
\* a failure is logged and thrown again
ConnectSettle(s, outcome) ==
    /\ reqs[s].kind = "connectDB" /\ reqs[s].pc = "connect"
    /\ IF outcome = "ok"
       THEN /\ readyState' = 1
            /\ isConnected' = TRUE
            /\ reqs' = [reqs EXCEPT ![s] = Returned(reqs[s], 1)]
       ELSE /\ readyState' = 0
            /\ reqs' = [reqs EXCEPT ![s] =
                   [reqs[s] EXCEPT !.pc = "done", !.result = "threw", !.stateAtReturn = 0]]
            /\ UNCHANGED isConnected
    /\ UNCHANGED <<clientVars, variant, jwtSecret, now, users, posts, nextUid, nextPid, nreq, issued, postLog, images>>

\* a cold function instance
InitConnect ==
    /\ isConnected = FALSE /\ readyState = 0
    /\ NoClient
    /\ variant = "sls"
    /\ jwtSecret = ConfiguredSecret
    /\ now = 0
    /\ users = {}
    /\ posts = {}
    /\ nextUid = 0
    /\ nextPid = 0
    /\ reqs = [s \in Slots |-> Idle]
    /\ nreq = 0
    /\ issued = {}
    /\ postLog = {}
    /\ images = {}

NextConnect ==
    \/ \E s \in Slots, caller \in {"posts", "register"} : connectDB(s, caller)
    \/ \E s \in Slots, outcome \in {"ok", "error"} : ConnectSettle(s, outcome)
    \/ \E s \in Slots : Recycle(s)

SpecConnect == InitConnect /\ [][NextConnect]_vars

\* C29: the flag isConnected is true only while the connection is
\* established; a call of connectDB returns only with the connection
\* established, never while an attempt is in progress or after it failed;
\* and a call that finds the connection down makes a new attempt.
C29_FlagOnlyWhenConnected ==
    /\ isConnected => readyState = 1
    /\ \A s \in Slots :
        LET c == reqs[s] IN
        c.kind = "connectDB" =>
            /\ (IsDone(c) /\ c.result = "returned") => c.stateAtReturn = 1
            /\ c.stateAtCall = 0 => c.attempted

(***************************************************************************)
(* The browser: the session store (AuthProvider over localStorage) and the *)
(* router.  The client talks to the Express backend; a call of login or    *)
(* register is the request it sends, and a later step when the response    *)
(* arrives.  The browser reads the same clock as the server.               *)
(***************************************************************************)
\* a value of ace_user that JSON.parse rejects
NotJson == [kind |-> "garbage"]

\* isAuthenticated of utils/auth: a token whose payload decodes and whose
\* exp lies in the future; the signature is not looked at
isAuthenticated ==
    /\ localStorage.token # NoToken
    /\ localStorage.token.kind = "jwt"
    /\ localStorage.token.exp > now

ProtectedPaths == {"/", "/my-stuff"}

\* the paths a user can ask for: the four routes and one that matches none
Paths == ProtectedPaths \cup {"/login", "/register", "/other"}

\* the element the Routes render for a path, as the path shown in the end
Routes(path, authed) ==
    IF path \in ProtectedPaths THEN (IF authed THEN path ELSE "/login")
    ELSE IF path \in {"/login", "/register"} THEN (IF authed THEN "/" ELSE path)
    ELSE (IF authed THEN "/" ELSE "/login")

\* the effect of AuthProvider, once after mounting
initializeAuth ==
    /\ isLoading = "pending"
    /\ IF localStorage.user = NotJson    \* getUser: JSON.parse throws
       THEN /\ isLoading' = "threw"
            /\ UNCHANGED <<localStorage, authUser, location>>
       ELSE IF localStorage.token # NoToken /\ localStorage.user # NoUser /\ isAuthenticated
       THEN /\ authUser' = localStorage.user
            /\ isLoading' = "done"
            /\ location' = Routes(location, TRUE)
            /\ UNCHANGED localStorage
       ELSE /\ localStorage' = EmptyStorage
            /\ isLoading' = "done"
            /\ location' = Routes(location, FALSE)
            /\ UNCHANGED authUser
    /\ UNCHANGED <<isConnected, readyState, feed, feedDisplay, variant, jwtSecret, now, users, posts, nextUid, nextPid, reqs, nreq, issued, postLog, images>>

\* login of the AuthProvider up to `await fetch`: the login form sends the
\* request
login(s, b) ==
    /\ isLoading = "done" /\ location = "/login"
    /\ ExLoginValidate(s, b)

\* register of the AuthProvider up to `await fetch`
register(s, b) ==
    /\ isLoading = "done" /\ location = "/register"
    /\ ExRegisterValidate(s, b)

\* response.ok
ResponseOk(resp) == resp.status >= 200 /\ resp.status <= 299

\* the rest of login and of register: the response has arrived; a response
\* that is not ok is thrown to the form and nothing is stored
AuthResponse(s) ==
    /\ reqs[s].kind \in {"login", "register"} /\ IsDone(reqs[s])
    /\ isLoading = "done"
    /\ reqs' = [reqs EXCEPT ![s] = Idle]
    /\ IF ResponseOk(reqs[s].resp)
       THEN /\ localStorage' = [token |-> reqs[s].resp.token, user |-> reqs[s].resp.user]
            /\ authUser' = reqs[s].resp.user
            /\ location' = Routes(location, TRUE)
       ELSE UNCHANGED <<localStorage, authUser, location>>
    /\ UNCHANGED <<isConnected, readyState, isLoading, feed, feedDisplay, variant, jwtSecret, now, users, posts, nextUid, nextPid, nreq, issued, postLog, images>>

logout ==
    /\ isLoading = "done"
    /\ localStorage' = EmptyStorage
    /\ authUser' = NoUser
    /\ location' = Routes(location, FALSE)
    /\ UNCHANGED <<isConnected, readyState, isLoading, feed, feedDisplay, variant, jwtSecret, now, users, posts, nextUid, nextPid, reqs, nreq, issued, postLog, images>>

\* the user follows a link of the application
Navigate(path) ==
    /\ isLoading = "done"
    /\ location' = Routes(path, authUser # NoUser)
    /\ location' # location
    /\ UNCHANGED <<isConnected, readyState, localStorage, authUser, isLoading, feed, feedDisplay, variant, jwtSecret, now, users, posts, nextUid, nextPid, reqs, nreq, issued, postLog, images>>

\* the page is loaded again (by the browser, or by window.location.href of
\* the forms) while no call is in flight: the provider mounts anew
Reload(path) ==
    /\ isLoading # "pending"
    /\ \A s \in TokenSlots : reqs[s] = Idle
    /\ location' = path
    /\ authUser' = NoUser
    /\ isLoading' = "pending"
    /\ UNCHANGED <<isConnected, readyState, localStorage, feed, feedDisplay, variant, jwtSecret, now, users, posts, nextUid, nextPid, reqs, nreq, issued, postLog, images>>

\* the browser may hold any entries when the application starts
InitSession ==
    /\ isConnected = TRUE /\ readyState = 1
    /\ \E token \in {NoToken, MalformedToken} \cup SeedTokens,
          user \in {NoUser, NotJson}
                   \cup { [id |-> u.id, name |-> u.name, email |-> u.email] : u \in SeedUsers },
          path \in Paths :
            ClientStart([token |-> token, user |-> user], path)
    /\ variant = "express"
    /\ jwtSecret = ConfiguredSecret
    /\ now = 0
    /\ users = SeedUsers
    /\ posts = {}
    /\ nextUid = Cardinality(SeedUsers)
    /\ nextPid = 0
    /\ reqs = [s \in Slots |-> Idle]
    /\ nreq = 0
    /\ issued = SeedTokens
    /\ postLog = {}
    /\ images = {}

NextSession ==
    \/ Tick
    \/ initializeAuth
    \/ \E s \in TokenSlots, password \in {"secret1", "secret2"} :
          login(s, [email |-> [local |-> <<"a">>, domain |-> "x.com"], password |-> password])
    \/ \E s \in TokenSlots : ExLoginFindOne(s)
    \/ \E s \in TokenSlots,
          email \in {[local |-> <<"a">>, domain |-> "x.com"],
                     [local |-> <<"a", "b">>, domain |-> "gmail.com"]} :
          register(s, [name |-> Bob, email |-> email, password |-> "secret1"])
    \/ \E s \in TokenSlots : ExRegisterFindOne(s)
    \/ \E s \in TokenSlots : ExRegisterSave(s)
    \/ \E s \in TokenSlots : AuthResponse(s)
    \/ logout
    \/ \E path \in Paths : Navigate(path)
    \/ \E path \in Paths : Reload(path)

SpecSession == InitSession /\ [][NextSession]_vars

\* once the provider has initialized, the user in memory is set exactly if
\* local storage holds both a token and a user record
SessionConsistent ==
    isLoading # "pending" =>
        (authUser # NoUser <=> (localStorage.token # NoToken /\ localStorage.user # NoUser))

\* C25: after initialization and after every sequence of login, register
\* and logout calls the user in memory is set exactly if local storage
\* holds a token and a user record; initialization with a missing,
\* malformed or expired token clears both entries; a failed login or
\* register leaves local storage and the user in memory as they were;
\* logout clears all three.
C25_SessionStore ==
    /\ []SessionConsistent
    /\ [][(isLoading = "pending" /\ isLoading' # "pending" /\ ~isAuthenticated) =>
             localStorage' = EmptyStorage]_vars
    /\ [][\A s \in TokenSlots :
             (/\ reqs[s].kind \in {"login", "register"} /\ IsDone(reqs[s])
              /\ ~ResponseOk(reqs[s].resp) /\ reqs'[s] = Idle) =>
                 (localStorage' = localStorage /\ authUser' = authUser)]_vars
    /\ [][logout => (localStorage' = EmptyStorage /\ authUser' = NoUser)]_vars

\* a protected view is on the screen
ProtectedShown == isLoading = "done" /\ location \in ProtectedPaths

\* C26: whenever a protected view ('/' or '/my-stuff') is shown, local
\* storage holds a token that has not expired at that moment; otherwise the
\* client is at a public route.
C26_ProtectedOnlyWhileValid ==
    /\ ProtectedShown => isAuthenticated
    /\ (isLoading = "done" /\ ~isAuthenticated) => location \in {"/login", "/register"}

(***************************************************************************)
(* The feed view.  Feed holds searchQuery and filterType; FeedDisplay      *)
(* calls fetchPosts when it mounts and whenever one of the two changes.    *)
(* A call is the request it sends, the server's handling of it, and a step *)
(* when the response arrives.  Requests reach the server in the order they *)
(* were sent; responses arrive in any order.                               *)
(***************************************************************************)
\* the query string fetchPosts builds
Params(f) ==
    [userId |-> NoId, q |-> f.searchQuery,
     type |-> IF f.filterType = "ALL" THEN "" ELSE f.filterType]

\* fetchPosts up to `await fetch`
FetchSent(f) ==
    [feedDisplay EXCEPT !.loading = TRUE, !.error = "",
                        !.sent = Append(feedDisplay.sent, Params(f))]

\* FeedDisplay mounts and its effect runs for the first time
MountFeedDisplay ==
    /\ feedDisplay.sent = <<>>
    /\ feedDisplay' = FetchSent(feed)
    /\ UNCHANGED <<isConnected, readyState, localStorage, authUser, isLoading, location, feed, variant, jwtSecret, now, users, posts, nextUid, nextPid, reqs, nreq, issued, postLog, images>>

\* the user types in the search field: the state changes, FeedDisplay
\* renders with the new prop and its effect calls the new fetchPosts
setSearchQuery(q) ==
    /\ feedDisplay.sent # <<>>
    /\ Len(feedDisplay.sent) < MaxReqs
    /\ q # feed.searchQuery
    /\ feed' = [feed EXCEPT !.searchQuery = q]
    /\ feedDisplay' = FetchSent(feed')
    /\ UNCHANGED <<isConnected, readyState, localStorage, authUser, isLoading, location, variant, jwtSecret, now, users, posts, nextUid, nextPid, reqs, nreq, issued, postLog, images>>

\* the user picks a type in the select
setFilterType(t) ==
    /\ feedDisplay.sent # <<>>
    /\ Len(feedDisplay.sent) < MaxReqs
    /\ t # feed.filterType
    /\ feed' = [feed EXCEPT !.filterType = t]
    /\ feedDisplay' = FetchSent(feed')
    /\ UNCHANGED <<isConnected, readyState, localStorage, authUser, isLoading, location, variant, jwtSecret, now, users, posts, nextUid, nextPid, reqs, nreq, issued, postLog, images>>

\* the next request that was sent reaches the server
FetchArrive(s) ==
    /\ nreq < Len(feedDisplay.sent)
    /\ ExGetFind(s, feedDisplay.sent[nreq + 1])

\* data.sort((a, b) => b.createdAt - a.createdAt): a stable sort, newest
\* first
SortByDate(list) ==
    LET n == Len(list)
        order == CHOOSE p \in [1..n -> 1..n] :
                    /\ \A i, j \in 1..n : i # j => p[i] # p[j]
                    /\ \A i, j \in 1..n : i < j =>
                          \/ list[p[i]].createdAt > list[p[j]].createdAt
                          \/ list[p[i]].createdAt = list[p[j]].createdAt /\ p[i] < p[j]
    IN [i \in 1..n |-> list[order[i]]]

\* the rest of fetchPosts: the response has arrived
FetchSettle(s) ==
    /\ reqs[s].kind = "getPosts" /\ IsDone(reqs[s])
    /\ reqs' = [reqs EXCEPT ![s] = Idle]
    /\ feedDisplay' =
         IF ResponseOk(reqs[s].resp)
         THEN [feedDisplay EXCEPT !.posts = SortByDate(reqs[s].resp.list),
                                  !.shownFor = reqs[s].query,
                                  !.loading = FALSE]
         ELSE [feedDisplay EXCEPT
                 !.error = "Failed to load posts. Please check your connection and try again.",
                 !.loading = FALSE]
    /\ UNCHANGED <<isConnected, readyState, localStorage, authUser, isLoading, location, feed, variant, jwtSecret, now, users, posts, nextUid, nextPid, nreq, issued, postLog, images>>

InitFeedView ==
    /\ isConnected = TRUE /\ readyState = 1
    /\ NoClient
    /\ variant = "express"
    /\ jwtSecret = ConfiguredSecret
    /\ now = 2
    /\ users = SeedUsers
    /\ posts = { p \in FeedPool : IsObjectId(p.userId) }
    /\ nextUid = Cardinality(SeedUsers)
    /\ nextPid = Cardinality(FeedPool)
    /\ reqs = [s \in Slots |-> Idle]
    /\ nreq = 0
    /\ issued = SeedTokens
    /\ postLog = {}
    /\ images = {}

NextFeedView ==
    \/ MountFeedDisplay
    \/ \E q \in {<<>>, <<"a">>, <<"x">>} : setSearchQuery(q)
    \/ \E t \in {"ALL", "NEED", "HAVE"} : setFilterType(t)
    \/ \E s \in Slots : FetchArrive(s)
    \/ \E s \in Slots : ExGetHydrate(s)
    \/ \E s \in Slots : FetchSettle(s)

SpecFeedView == InitFeedView /\ [][NextFeedView]_vars

\* every request that was sent has been answered and the answer has arrived
AllArrived ==
    /\ feedDisplay.sent # <<>>
    /\ nreq = Len(feedDisplay.sent)
    /\ \A s \in Slots : reqs[s] = Idle

\* C30: once the responses of all fetches have arrived, the list on the
\* screen is the response to the current (searchQuery, filterType), in
\* whatever order the responses arrived.
C30_LatestQueryShown ==
    (AllArrived /\ feedDisplay.error = "") => feedDisplay.shownFor = Params(feed)

====
